---- MODULE Spec2Model ----
(***************************************************************************)
(* Hybrid retrieval and indexing engine: the dual-store IndexManager       *)
(* (vector store + BM25 keyword store), the BM25 service and its pickle    *)
(* store, and the HybridRetriever with Reciprocal Rank Fusion.             *)
(*                                                                         *)
(* Scores are exact rationals [num, den] (den > 0) in place of floats.     *)
(* BM25 idf values are natural logarithms in fixed point, units of 1e-6.   *)
(***************************************************************************)
EXTENDS Integers, Sequences, FiniteSets, TLC

\* ------------------------------------------------------------------ bounds
MaxChunks == 3          \* chunks per index request, and chunk slots per document
MaxK == 2               \* largest k passed to search
MaxOps == 3             \* index/delete calls in one run
MaxSetup == 2           \* index/delete calls made before a search
MaxMetadatas == 2       \* caller-supplied metadata maps in one index request

\* ------------------------------------------------------- program constants
DEFAULT_RRF_K == 60
VectorWeightTenths == 7
Bm25WeightTenths == 3

DocIds == {"d1"}
UserIds == {"u1", "u2"}
ChunkIdx == 1..MaxChunks
ChunkIds == DocIds \X ChunkIdx      \* f"{document_id}_chunk_{idx}"

\* Python's None: for strings, for objects, and for the optional error text.
Null == "None"
None == [none |-> TRUE]
NoError == <<>>

\* An index file that does not exist, and one left partially written.
NoRecord == [file |-> "absent"]
Corrupt == [file |-> "partial"]

\* ------------------------------------------------------------- tokenizer
\* A text is a sequence of characters.  Beside ASCII letters, the space and the
\* comma: two ideographs (U+4F60 U+597D is a word of jieba's dictionary), the
\* ideographic full stop, the left double angle bracket and the left double
\* quotation mark.
CjkChars == {"U+4F60", "U+597D"}

\* string.punctuation
AsciiPunctuation == {","}

CHINESE_PUNCTUATION == {"U+3002", "U+300A"}

\* The characters _tokenize_mixed cuts segments at: whitespace,
\* string.punctuation and its own list of Chinese punctuation.
MixedSeparators == {" ", ",", "U+3002"}

\* The characters the pattern [^\w] matches.
Separators == {" ", ",", "U+3002", "U+300A", "U+201C"}

_is_cjk_char(ch) == ch \in CjkChars

\* _calculate_cjk_ratio(text) >= CJK_RATIO_THRESHOLD, the threshold being 0.3
is_chinese_text(text) ==
    LET chars == { i \in DOMAIN text : text[i] # " " /\ text[i] \notin AsciiPunctuation }
        cjk_count == Cardinality({ i \in chars : _is_cjk_char(text[i]) })
    IN  chars # {} /\ 10 * cjk_count >= 3 * Cardinality(chars)

_is_punctuation(token) ==
    \A i \in DOMAIN token :
        token[i] \in AsciiPunctuation \cup CHINESE_PUNCTUATION \cup {" "}

Lower(ch) ==
    CASE ch = "A" -> "a"
      [] ch = "B" -> "b"
      [] ch = "C" -> "c"
      [] OTHER -> ch

\* re.split(r'[^\w]+', text.lower()) with the empty pieces dropped, applied to
\* the segments _tokenize_mixed cuts at whitespace and punctuation.
RECURSIVE TokScan(_, _, _)
TokScan(text, cur, acc) ==
    IF text = <<>>
    THEN IF cur = <<>> THEN acc ELSE Append(acc, cur)
    ELSE IF Head(text) \in Separators
         THEN TokScan(Tail(text), <<>>, IF cur = <<>> THEN acc ELSE Append(acc, cur))
         ELSE TokScan(Tail(text), Append(cur, Lower(Head(text))), acc)

IsBlank(text) == \A i \in 1..Len(text) : text[i] = " "

_tokenize_english(text) == TokScan(text, <<>>, <<>>)

\* jieba.cut(text, cut_all=False): a run of ASCII letters is one token, a
\* run of ideographs is cut into dictionary words and single ideographs, every
\* other character (whitespace, punctuation) is a token of its own.
RECURSIVE JiebaCut(_, _, _)
JiebaCut(text, buf, acc) ==
    LET flushed == IF buf = <<>> THEN acc ELSE Append(acc, buf)
    IN  IF text = <<>> THEN flushed
        ELSE IF _is_cjk_char(Head(text))
        THEN IF Len(text) >= 2 /\ SubSeq(text, 1, 2) = <<"U+4F60", "U+597D">>
             THEN JiebaCut(SubSeq(text, 3, Len(text)), <<>>,
                           Append(flushed, SubSeq(text, 1, 2)))
             ELSE JiebaCut(Tail(text), <<>>, Append(flushed, <<Head(text)>>))
        ELSE IF Head(text) \in Separators
        THEN JiebaCut(Tail(text), <<>>, Append(flushed, <<Head(text)>>))
        ELSE JiebaCut(Tail(text), Append(buf, Head(text)), acc)

\* [t.strip().lower() for t in tokens if t.strip() and not _is_punctuation(t)]
RECURSIVE KeepWords(_)
KeepWords(tokens) ==
    IF tokens = <<>> THEN <<>>
    ELSE IF ~IsBlank(Head(tokens)) /\ ~_is_punctuation(Head(tokens))
         THEN <<[i \in DOMAIN Head(tokens) |-> Lower(Head(tokens)[i])]>>
                \o KeepWords(Tail(tokens))
         ELSE KeepWords(Tail(tokens))

_tokenize_chinese(text) == KeepWords(JiebaCut(text, <<>>, <<>>))

\* The flush of _tokenize_mixed: the segment goes to the tokenizer of its script.
FlushSegment(segment, is_cjk) ==
    IF segment = <<>> THEN <<>>
    ELSE IF is_cjk = "cjk" THEN _tokenize_chinese(segment)
    ELSE _tokenize_english(segment)

RECURSIVE MixedScan(_, _, _, _)
MixedScan(text, current_segment, current_is_cjk, tokens) ==
    IF text = <<>> THEN tokens \o FlushSegment(current_segment, current_is_cjk)
    ELSE LET char == Head(text)
             char_is_cjk == IF _is_cjk_char(char) THEN "cjk" ELSE "other"
         IN  IF char \in MixedSeparators
             THEN MixedScan(Tail(text), <<>>, "none",
                            tokens \o FlushSegment(current_segment, current_is_cjk))
             ELSE IF current_is_cjk = "none" \/ char_is_cjk = current_is_cjk
             THEN MixedScan(Tail(text), Append(current_segment, char), char_is_cjk, tokens)
             ELSE MixedScan(Tail(text), <<char>>, char_is_cjk,
                            tokens \o FlushSegment(current_segment, current_is_cjk))

_tokenize_mixed(text) == MixedScan(text, <<>>, "none", <<>>)

tokenize(text) ==
    IF text = <<>> \/ IsBlank(text) THEN <<>>
    ELSE IF is_chinese_text(text) THEN _tokenize_chinese(text)
    ELSE _tokenize_mixed(text)

\* ------------------------------------------------------------ input data
\* Text of the chunk in slot i of a document.
TextOf(i) ==
    CASE i % 3 = 1 -> <<"A", " ", "b">>
      [] i % 3 = 2 -> <<"b", ",", "C">>
      [] OTHER     -> <<" ">>

\* Embeddings are points on a line; the store's distance is squared L2.
EmbeddingOf(i) == i
QueryEmbeddings == {0, 2}
Distance(e, q) == (e - q) * (e - q)

Queries == { <<"a">>, <<"B", " ", "c">>, <<"z">>, <<" ">> }

\* A request carries the chunks of slots lo..hi of its document (hi < lo: no texts).
Range(lo, hi) == [i \in 1..(IF hi < lo THEN 0 ELSE hi - lo + 1) |-> lo + i - 1]

Request(d, u, lo, hi) ==
    [document_id |-> d,
     user_id     |-> u,
     chunk_ids   |-> [i \in DOMAIN Range(lo, hi) |-> <<d, Range(lo, hi)[i]>>],
     texts       |-> [i \in DOMAIN Range(lo, hi) |-> TextOf(Range(lo, hi)[i])],
     embeddings  |-> [i \in DOMAIN Range(lo, hi) |-> EmbeddingOf(Range(lo, hi)[i])],
     metadatas   |-> <<>>]

Requests ==
    { Request(d, u, lo, hi) : d \in DocIds, u \in UserIds, lo \in ChunkIdx, hi \in ChunkIdx }

\* ------------------------------------------------------------ BM25Okapi
\* round(1e6 * (ln(N - n + 0.5) - ln(n + 0.5))) for a word found in n of N chunks.
LogIdf(N, n) ==
    CASE N = 1 -> -1098612
      [] N = 2 -> <<0, -1609438>>[n]
      [] N = 3 -> <<510826, -510826, -1945910>>[n]
      [] N = 4 -> <<847298, 0, -847298, -2197225>>[n]
      [] OTHER -> <<1098612, 336472, -336472, -1098612, -2397895>>[n]

RECURSIVE SumOver(_, _)
SumOver(S, f) ==
    IF S = {} THEN 0
    ELSE LET x == CHOOSE y \in S : TRUE IN f[x] + SumOver(S \ {x}, f)

RECURSIVE SumSeq(_)
SumSeq(s) == IF s = <<>> THEN 0 ELSE Head(s) + SumSeq(Tail(s))

WordSet(corpus) == UNION { { corpus[i][j] : j \in DOMAIN corpus[i] } : i \in DOMAIN corpus }

Freq(doc, w) == Cardinality({ j \in DOMAIN doc : doc[j] = w })

\* BM25.__init__ divides by corpus_size and _calc_idf by len(self.idf).
BM25OkapiRaises(corpus) == corpus = <<>> \/ WordSet(corpus) = {}

ZeroDivisionMsg == "division by zero"

BM25Okapi(corpus) ==
    LET N     == Len(corpus)
        words == WordSet(corpus)
        nd    == [w \in words |-> Cardinality({ i \in DOMAIN corpus : Freq(corpus[i], w) > 0 })]
        idf0  == [w \in words |-> LogIdf(N, nd[w])]
        \* average_idf = idf_sum / len(idf);  eps = epsilon * average_idf, epsilon = 0.25
        eps   == SumOver(words, idf0) \div (4 * Cardinality(words))
    IN  [corpus_size |-> N,
         num_doc     |-> SumSeq([i \in DOMAIN corpus |-> Len(corpus[i])]),
         doc_len     |-> [i \in DOMAIN corpus |-> Len(corpus[i])],
         doc_freqs   |-> corpus,
         idf         |-> [w \in words |-> IF idf0[w] < 0 THEN eps ELSE idf0[w]]]

\* idf * f * (k1 + 1) / (f + k1 * (1 - b + b * doc_len / avgdl)), k1 = 1.5, b = 0.75,
\* avgdl = num_doc / corpus_size; numerator and denominator multiplied by 8 * num_doc.
TermScore(index, i, q) ==
    LET f == Freq(index.doc_freqs[i], q)
        w == IF q \in DOMAIN index.idf THEN index.idf[q] ELSE 0
    IN  (w * 20 * f * index.num_doc)
          \div (8 * f * index.num_doc + 3 * index.num_doc
                  + 9 * index.doc_len[i] * index.corpus_size)

get_scores(index, query_tokens) ==
    [i \in 1..index.corpus_size |->
        SumSeq([j \in DOMAIN query_tokens |-> TermScore(index, i, query_tokens[j])])]

\* ------------------------------------------------------------ BM25Service
ChunkData(chunk_id, text, metadata) ==
    [chunk_id |-> chunk_id, text |-> text, metadata |-> metadata]

EmptyService == [index |-> None, chunks |-> <<>>, tokenized_corpus |-> <<>>]

is_indexed(service) == service.index # None

\* Returns the service after the call and the exception raised, if any.
build_index(service, chunks) ==
    IF chunks = <<>>
    THEN [service |-> service, raised |-> "Cannot build index from empty chunks list"]
    ELSE LET corpus == [i \in DOMAIN chunks |-> tokenize(chunks[i].text)]
         IN  IF BM25OkapiRaises(corpus)
             THEN [service |-> [service EXCEPT !.chunks = chunks, !.tokenized_corpus = corpus],
                   raised  |-> ZeroDivisionMsg]
             ELSE [service |-> [index |-> BM25Okapi(corpus), chunks |-> chunks,
                                tokenized_corpus |-> corpus],
                   raised  |-> Null]

\* Scores as rationals.
Rat(n, d) == [num |-> n, den |-> d]
RatGt(a, b) == a.num * b.den > b.num * a.den
RatEq(a, b) == a.num * b.den = b.num * a.den
RECURSIVE Gcd(_, _)
Gcd(a, b) == IF b = 0 THEN a ELSE Gcd(b, a % b)

\* The sum in lowest terms (both arguments are non-negative).
RatAdd(a, b) ==
    LET n == a.num * b.den + b.num * a.den
        d == a.den * b.den
    IN  Rat(n \div Gcd(n, d), d \div Gcd(n, d))

\* sorted(..., key=..., reverse=True) and list.sort(key=..., reverse=True):
\* stable, elements with equal keys keep their order.  key is a function
\* from the elements of s to rationals.
RECURSIVE InsertDesc(_, _, _)
InsertDesc(sorted, x, key) ==
    IF sorted = <<>> THEN <<x>>
    ELSE IF RatGt(key[x], key[Head(sorted)])
         THEN <<x>> \o sorted
         ELSE <<Head(sorted)>> \o InsertDesc(Tail(sorted), x, key)

RECURSIVE SortDesc(_, _)
SortDesc(s, key) ==
    IF s = <<>> THEN <<>>
    ELSE InsertDesc(SortDesc(SubSeq(s, 1, Len(s) - 1), key), s[Len(s)], key)

\* Mutant: the slice keeps one element more.
Take_one_more(s, n) == SubSeq(s, 1, IF n + 1 < Len(s) THEN n + 1 ELSE Len(s))

Take(s, n) == SubSeq(s, 1, IF n < Len(s) THEN n ELSE Len(s))

\* Mutant: a score equal to the threshold is kept.
SelectIdx_at_least(scores, threshold) ==
    LET F[i \in 0..Len(scores)] ==
          IF i = 0 THEN <<>>
          ELSE IF scores[i] >= threshold THEN Append(F[i - 1], i) ELSE F[i - 1]
    IN  F[Len(scores)]

SelectIdx(scores, threshold) ==
    LET F[i \in 0..Len(scores)] ==
          IF i = 0 THEN <<>>
          ELSE IF scores[i] > threshold THEN Append(F[i - 1], i) ELSE F[i - 1]
    IN  F[Len(scores)]

BM25SearchResult(chunk, score) ==
    [chunk_id |-> chunk.chunk_id, text |-> chunk.text, score |-> score,
     metadata |-> chunk.metadata]

\* BM25Service.search on an indexed service.
bm25_search(service, query, k, score_threshold) ==
    IF query = <<>> \/ IsBlank(query) THEN <<>>
    ELSE LET query_tokens == tokenize(query)
         IN  IF query_tokens = <<>> THEN <<>>
             ELSE LET scores == get_scores(service.index, query_tokens)
                      key == [i \in DOMAIN scores |-> Rat(scores[i], 1)]
                      scored_indices == SortDesc(SelectIdx(scores, score_threshold), key)
                      top_results == Take(scored_indices, k)
                  IN  [j \in DOMAIN top_results |->
                          BM25SearchResult(service.chunks[top_results[j]],
                                           scores[top_results[j]])]

\* clear()
clear(service) == [index |-> None, chunks |-> <<>>, tokenized_corpus |-> <<>>]

NotBuiltMsg == "No index has been built. Call build_index() first."
IndexErrorMsg == "list index out of range"

\* Stands for a position past the end of the chunk list.
PastEnd == ChunkData(<<"", 0>>, <<>>, [user_id |-> "", document_id |-> ""])

\* BM25Service.search on a service in any state: the index scores the corpus
\* it was built from, and self._chunks[idx] raises for a position the chunk
\* list does not have.
service_search(service, query, k, score_threshold) ==
    IF ~is_indexed(service) THEN [raised |-> NotBuiltMsg, results |-> <<>>]
    ELSE LET padded == [service EXCEPT !.chunks =
                           [i \in 1..service.index.corpus_size |->
                               IF i <= Len(service.chunks) THEN service.chunks[i]
                               ELSE PastEnd]]
             found == bm25_search(padded, query, k, score_threshold)
         IN  IF \E j \in DOMAIN found : found[j].chunk_id = PastEnd.chunk_id
             THEN [raised |-> IndexErrorMsg, results |-> <<>>]
             ELSE [raised |-> Null, results |-> found]

\* ------------------------------------------- BM25Service, its lists as objects
\* heap[a] is the list object at address a.  The chunk list holds ChunkData
\* values, the tokenized corpus holds the addresses of its token lists.
\* NoRef is a reference the caller does not hold.
NoRef == 0

New(heap) == Len(heap) + 1

\* __init__: no index, two new empty lists.
BM25Service_init ==
    [heap    |-> << <<>>, <<>> >>,
     service |-> [index |-> None, chunks |-> 1, tokenized_corpus |-> 2],
     caller  |-> [passed |-> NoRef, chunks |-> NoRef, corpus |-> NoRef]]

\* The token lists of the corpus at address a.
CorpusAt(heap, a) == [i \in DOMAIN heap[a] |-> heap[heap[a][i]]]

\* The service as its methods see it now.
ServiceOf(mem) ==
    [index            |-> mem.service.index,
     chunks           |-> mem.heap[mem.service.chunks],
     tokenized_corpus |-> CorpusAt(mem.heap, mem.service.tokenized_corpus)]

\* build_index(chunks) with the list at address a: self._chunks is that very
\* list; the corpus is a new list of new token lists.
build_index_at(mem, a) ==
    IF mem.heap[a] = <<>>
    THEN [mem |-> mem, raised |-> "Cannot build index from empty chunks list"]
    ELSE LET chunks == mem.heap[a]
             corpus == [i \in DOMAIN chunks |-> tokenize(chunks[i].text)]
             heap1  == mem.heap \o corpus
             heap2  == Append(heap1, [i \in DOMAIN chunks |-> Len(mem.heap) + i])
             held   == [mem.service EXCEPT !.chunks = a, !.tokenized_corpus = New(heap1)]
         IN  IF BM25OkapiRaises(corpus)
             THEN [mem |-> [mem EXCEPT !.heap = heap2, !.service = held],
                   raised |-> ZeroDivisionMsg]
             ELSE [mem |-> [mem EXCEPT !.heap = heap2,
                                      !.service = [held EXCEPT !.index = BM25Okapi(corpus)]],
                   raised |-> Null]

\* get_chunks: self._chunks.copy(), a new list of the same chunks.
get_chunks(mem) ==
    [mem EXCEPT !.heap = Append(mem.heap, mem.heap[mem.service.chunks]),
                !.caller.chunks = New(mem.heap)]

\* get_tokenized_corpus: self._tokenized_corpus.copy(), a new outer list of
\* the same token lists.
get_tokenized_corpus(mem) ==
    [mem EXCEPT !.heap = Append(mem.heap, mem.heap[mem.service.tokenized_corpus]),
                !.caller.corpus = New(mem.heap)]

\* clear: no index, two new empty lists.
clear_at(mem) ==
    [mem EXCEPT !.heap = mem.heap \o << <<>>, <<>> >>,
                !.service = [index |-> None, chunks |-> New(mem.heap),
                             tokenized_corpus |-> New(mem.heap) + 1]]

\* list.pop() and list.append(x) on the list at address a.
ListPop(heap, a) == [heap EXCEPT ![a] = SubSeq(heap[a], 1, Len(heap[a]) - 1)]
ListAppend(heap, a, x) == [heap EXCEPT ![a] = Append(heap[a], x)]

\* --------------------------------------------------------- BM25IndexStore
SaveFaults == {"none", "open", "write"}
NoIndexMsg == "Cannot save: BM25Service has no built index"
OpenFailedMsg == "cannot open index file"
WriteFailedMsg == "cannot write index file"
UnlinkFailedMsg == "cannot unlink index file"

\* Mutant: the token lists are written in reverse chunk order.
BM25IndexData_reversed_corpus(document_id, service) ==
    [document_id |-> document_id, chunks |-> service.chunks,
     tokenized_corpus |-> [i \in DOMAIN service.tokenized_corpus |->
         service.tokenized_corpus[Len(service.tokenized_corpus) + 1 - i]]]

BM25IndexData(document_id, service) ==
    [document_id |-> document_id, chunks |-> service.chunks,
     tokenized_corpus |-> service.tokenized_corpus]

\* open(index_path, "wb") creates or truncates the file before pickle.dump runs:
\* a dump that raises leaves a partial file behind.
save(files, document_id, service, fault) ==
    IF ~is_indexed(service) THEN [files |-> files, raised |-> NoIndexMsg]
    ELSE CASE fault = "open"  -> [files |-> files, raised |-> OpenFailedMsg]
           [] fault = "write" -> [files |-> [files EXCEPT ![document_id] = Corrupt],
                                  raised |-> WriteFailedMsg]
           [] OTHER -> [files |-> [files EXCEPT ![document_id] =
                                       BM25IndexData(document_id, service)],
                        raised |-> Null]

exists(files, document_id) == files[document_id] # NoRecord

LoadRaises(files, document_id) ==
    \/ files[document_id] = Corrupt
    \/ /\ files[document_id] # NoRecord
       /\ BM25OkapiRaises(files[document_id].tokenized_corpus)

\* load of a readable record; None when no file exists.
load(files, document_id) ==
    IF ~exists(files, document_id) THEN None
    ELSE [index            |-> BM25Okapi(files[document_id].tokenized_corpus),
          chunks           |-> files[document_id].chunks,
          tokenized_corpus |-> files[document_id].tokenized_corpus]

\* Mutant: delete reports the removal and leaves the file in place.
delete_keeps_file(files, document_id, unlinkRaises) ==
    IF exists(files, document_id)
    THEN IF unlinkRaises
         THEN [files |-> files, deleted |-> FALSE, raised |-> UnlinkFailedMsg]
         ELSE [files |-> files, deleted |-> TRUE, raised |-> Null]
    ELSE [files |-> files, deleted |-> FALSE, raised |-> Null]

delete(files, document_id, unlinkRaises) ==
    IF exists(files, document_id)
    THEN IF unlinkRaises
         THEN [files |-> files, deleted |-> FALSE, raised |-> UnlinkFailedMsg]
         ELSE [files |-> [files EXCEPT ![document_id] = NoRecord],
               deleted |-> TRUE, raised |-> Null]
    ELSE [files |-> files, deleted |-> FALSE, raised |-> Null]

list_indexes(files) == { d \in DOMAIN files : files[d] # NoRecord }

\* ------------------------------------------------------------ vector store
AddFailedMsg == "vector add failed"
DeleteFailedMsg == "vector delete failed"

Where(document_id, user_id) == [document_id |-> document_id, user_id |-> user_id]

Matches(entry, where) ==
    /\ entry.metadata.document_id = where.document_id
    /\ entry.metadata.user_id = where.user_id

\* add(documents, embeddings, metadatas, ids): one entry per id, an entry
\* already stored under an id is replaced.
VectorAdd(coll, documents, embeddings, metadatas, ids) ==
    { e \in coll : \A i \in DOMAIN ids : ids[i] # e.id }
    \cup { [id |-> ids[i], document |-> documents[i], embedding |-> embeddings[i],
            metadata |-> metadatas[i]] : i \in DOMAIN ids }

\* delete(where={"$and": [document_id == ..., user_id == ...]})
VectorDelete(coll, where) == { e \in coll : ~Matches(e, where) }

\* ------------------------------------------------------------ IndexManager
Call(store, op, arg, raised) == [store |-> store, op |-> op, arg |-> arg, raised |-> raised]

IndexResult(success, document_id, vector_indexed, bm25_indexed, error) ==
    [success |-> success, document_id |-> document_id, vector_indexed |-> vector_indexed,
     bm25_indexed |-> bm25_indexed, error |-> error]

DeleteResult(success, document_id, vector_deleted, bm25_deleted, error) ==
    [success |-> success, document_id |-> document_id, vector_deleted |-> vector_deleted,
     bm25_deleted |-> bm25_deleted, error |-> error]

NoTextsMsg == "No texts provided for indexing"

\* A metadata map is a function from its keys to their values; {} of Python
\* is the function with no key.
EmptyMap == <<>>

\* metadata[key] = value on a dict.
SetItem(metadata, key, value) ==
    [k \in DOMAIN metadata \cup {key} |-> IF k = key THEN value ELSE metadata[k]]

\* Mutant: the injected fields do not replace the caller's.
_prepare_metadatas_caller_wins(request) ==
    [i \in DOMAIN request.texts |->
        LET metadata == IF i <= Len(request.metadatas) THEN request.metadatas[i]
                        ELSE EmptyMap
        IN  [k \in DOMAIN metadata \cup {"user_id", "document_id"} |->
                IF k \in DOMAIN metadata THEN metadata[k]
                ELSE IF k = "user_id" THEN request.user_id ELSE request.document_id]]

\* One map per text: a copy of the caller's map at that position (an empty map
\* when the caller gave fewer maps than texts) with the two fields set.
_prepare_metadatas(request) ==
    [i \in DOMAIN request.texts |->
        LET metadata == IF i <= Len(request.metadatas) THEN request.metadatas[i]
                        ELSE EmptyMap
        IN  SetItem(SetItem(metadata, "user_id", request.user_id),
                    "document_id", request.document_id)]

\* The caller's maps after _prepare_metadatas: dict(request.metadatas[i]) is a
\* new map and the two assignments write to it, never to the caller's.
CallerMapsAfter(request) == request.metadatas

\* Outcome of the keyword step: build a BM25Service from the chunks and save it.
_index_bm25_store(files, request, metadatas, saveFault) ==
    LET chunks == [i \in DOMAIN request.chunk_ids |->
                      ChunkData(request.chunk_ids[i], request.texts[i], metadatas[i])]
        built  == build_index(EmptyService, chunks)
    IN  IF built.raised # Null
        THEN [files |-> files, raised |-> built.raised, calls |-> <<>>]
        ELSE LET saved == save(files, request.document_id, built.service, saveFault)
             IN  [files |-> saved.files, raised |-> saved.raised,
                  calls |-> <<Call("bm25", "save", request.document_id, saved.raised # Null)>>]

\* The delete call made by _delete_from_vector_store.
_delete_from_vector_store(coll, document_id, user_id, deleteRaises) ==
    [coll   |-> IF deleteRaises THEN coll ELSE VectorDelete(coll, Where(document_id, user_id)),
     raised |-> IF deleteRaises THEN DeleteFailedMsg ELSE Null,
     calls  |-> <<Call("vector", "delete", Where(document_id, user_id), deleteRaises)>>]

\* Mutant: the rollback lets the exception of the delete escape.
_rollback_vector_store_reraises(coll, document_id, user_id, deleteRaises) ==
    LET del == _delete_from_vector_store(coll, document_id, user_id, deleteRaises)
    IN  [coll |-> del.coll, raised |-> del.raised, calls |-> del.calls]

\* _rollback_vector_store swallows the exception of the delete.
_rollback_vector_store(coll, document_id, user_id, deleteRaises) ==
    LET del == _delete_from_vector_store(coll, document_id, user_id, deleteRaises)
    IN  [coll |-> del.coll, raised |-> Null, calls |-> del.calls]

FailedIndex(request, error) ==
    IndexResult(FALSE, request.document_id, FALSE, FALSE, error)

\* Step 2 of index_document and the rollback, entered once the vector add
\* has returned; coll1 is the collection after the add.
_index_step2(coll1, files, request, metadatas, addCall, saveFault, deleteRaises) ==
    LET kw == _index_bm25_store(files, request, metadatas, saveFault)
    IN  IF kw.raised # Null
        THEN LET rb == _rollback_vector_store(coll1, request.document_id,
                                              request.user_id, deleteRaises)
             IN  [coll |-> rb.coll, files |-> kw.files,
                  calls |-> <<addCall>> \o kw.calls \o rb.calls,
                  raised |-> rb.raised, keywordError |-> kw.raised,
                  result |-> FailedIndex(request,
                               <<"BM25 indexing failed (vector store rolled back): ",
                                 kw.raised>>)]
        ELSE [coll |-> coll1, files |-> kw.files,
              calls |-> <<addCall>> \o kw.calls, raised |-> Null, keywordError |-> Null,
              result |-> IndexResult(TRUE, request.document_id, TRUE, TRUE, NoError)]

\* Mutant: a failed vector add does not end the call.
index_document_no_early_return(coll, files, request, addRaises, saveFault, deleteRaises) ==
    IF request.texts = <<>>
    THEN [coll |-> coll, files |-> files, calls |-> <<>>, raised |-> Null,
          keywordError |-> Null, result |-> FailedIndex(request, <<NoTextsMsg>>)]
    ELSE _index_step2(IF addRaises THEN coll
                      ELSE VectorAdd(coll, request.texts, request.embeddings,
                                     _prepare_metadatas(request), request.chunk_ids),
                      files, request, _prepare_metadatas(request),
                      Call("vector", "add", request.chunk_ids, addRaises),
                      saveFault, deleteRaises)

index_document(coll, files, request, addRaises, saveFault, deleteRaises) ==
    IF request.texts = <<>>
    THEN [coll |-> coll, files |-> files, calls |-> <<>>, raised |-> Null,
          keywordError |-> Null, result |-> FailedIndex(request, <<NoTextsMsg>>)]
    ELSE
    LET metadatas == _prepare_metadatas(request)
        addCall   == Call("vector", "add", request.chunk_ids, addRaises)
    IN  IF addRaises
        THEN [coll |-> coll, files |-> files, calls |-> <<addCall>>, raised |-> Null,
              keywordError |-> Null,
              result |-> FailedIndex(request,
                           <<"Vector store indexing failed: ", AddFailedMsg>>)]
        ELSE _index_step2(VectorAdd(coll, request.texts, request.embeddings, metadatas,
                                    request.chunk_ids),
                          files, request, metadatas, addCall, saveFault, deleteRaises)

\* "; ".join(errors)
Join(errors) ==
    IF errors = <<>> THEN NoError
    ELSE IF Len(errors) = 1 THEN errors[1]
    ELSE errors[1] \o <<"; ">> \o errors[2]

\* Mutant: a failed vector delete ends the call before the keyword delete.
delete_document_stops_on_failure(coll, files, document_id, user_id, deleteRaises, unlinkRaises) ==
    LET vdel == _delete_from_vector_store(coll, document_id, user_id, deleteRaises)
        kdel == delete(files, document_id, unlinkRaises)
    IN  IF vdel.raised # Null
        THEN [coll |-> vdel.coll, files |-> files, calls |-> vdel.calls, raised |-> Null,
              result |-> DeleteResult(FALSE, document_id, FALSE, FALSE,
                           <<"Vector store deletion failed: ", vdel.raised>>)]
        ELSE [coll |-> vdel.coll, files |-> kdel.files,
              calls |-> vdel.calls
                        \o <<Call("bm25", "delete", document_id, kdel.raised # Null)>>,
              raised |-> Null,
              result |-> DeleteResult(TRUE, document_id, TRUE,
                           kdel.raised = Null /\ kdel.deleted,
                           IF kdel.raised # Null
                           THEN <<"BM25 store deletion failed: ", kdel.raised>>
                           ELSE NoError)]

delete_document(coll, files, document_id, user_id, deleteRaises, unlinkRaises) ==
    LET vdel == _delete_from_vector_store(coll, document_id, user_id, deleteRaises)
        kdel == delete(files, document_id, unlinkRaises)
        errors == (IF vdel.raised # Null
                   THEN << <<"Vector store deletion failed: ", vdel.raised>> >> ELSE <<>>)
                  \o (IF kdel.raised # Null
                      THEN << <<"BM25 store deletion failed: ", kdel.raised>> >> ELSE <<>>)
        vector_deleted == vdel.raised = Null
        bm25_deleted   == kdel.raised = Null /\ kdel.deleted
    IN  [coll |-> vdel.coll, files |-> kdel.files,
         calls |-> vdel.calls \o <<Call("bm25", "delete", document_id, kdel.raised # Null)>>,
         raised |-> Null,
         result |-> DeleteResult(vector_deleted \/ bm25_deleted, document_id,
                                 vector_deleted, bm25_deleted, Join(errors))]

\* --------------------------------------------------------- IndexReconciler
\* get_chromadb_document_ids: the document_id of every entry's metadata.
get_chromadb_document_ids(coll) == { e.metadata.document_id : e \in coll }

get_bm25_document_ids(files) == list_indexes(files)

ReconciliationReport(chromadb_documents, bm25_documents) ==
    [chromadb_documents   |-> chromadb_documents,
     bm25_documents       |-> bm25_documents,
     orphaned_in_chromadb |-> chromadb_documents \ bm25_documents,
     orphaned_in_bm25     |-> bm25_documents \ chromadb_documents,
     fixed_bm25           |-> {},
     fix_errors           |-> {}]

is_consistent(report) ==
    Cardinality(report.orphaned_in_chromadb) + Cardinality(report.orphaned_in_bm25) = 0

\* Mutant: the fix removes the vector entries of vector-only documents too.
_apply_fixes_both_stores(coll, files, report, failing) ==
    [coll   |-> { e \in coll : e.metadata.document_id \notin report.orphaned_in_chromadb },
     files  |-> [d \in DOMAIN files |->
                   IF d \in report.orphaned_in_bm25
                   THEN delete(files, d, d \in failing).files[d] ELSE files[d]],
     calls  |-> report.orphaned_in_bm25,
     report |-> [report EXCEPT
                   !.fixed_bm25 = { d \in report.orphaned_in_bm25 :
                                      delete(files, d, d \in failing).deleted },
                   !.fix_errors = { d \in report.orphaned_in_bm25 :
                                      delete(files, d, d \in failing).raised # Null }]]

\* _apply_fixes: one BM25IndexStore.delete per keyword-only document; failing
\* is the set of document ids whose unlink raises.  calls is the set of ids
\* delete was called for.
_apply_fixes(coll, files, report, failing) ==
    [coll   |-> coll,
     files  |-> [d \in DOMAIN files |->
                   IF d \in report.orphaned_in_bm25
                   THEN delete(files, d, d \in failing).files[d] ELSE files[d]],
     calls  |-> report.orphaned_in_bm25,
     report |-> [report EXCEPT
                   !.fixed_bm25 = { d \in report.orphaned_in_bm25 :
                                      delete(files, d, d \in failing).deleted },
                   !.fix_errors = { d \in report.orphaned_in_bm25 :
                                      delete(files, d, d \in failing).raised # Null }]]

\* reconcile(auto_fix); getRaises: the collection's get raises, and reconcile
\* with it.
reconcile(coll, files, auto_fix, getRaises, failing) ==
    IF getRaises
    THEN [coll |-> coll, files |-> files, calls |-> {}, raised |-> "vector get failed",
          report |-> None]
    ELSE LET report == ReconciliationReport(get_chromadb_document_ids(coll),
                                            get_bm25_document_ids(files))
         IN  IF auto_fix /\ ~is_consistent(report)
             THEN LET fixed == _apply_fixes(coll, files, report, failing)
                  IN  [coll |-> fixed.coll, files |-> fixed.files, calls |-> fixed.calls,
                       raised |-> Null, report |-> fixed.report]
             ELSE [coll |-> coll, files |-> files, calls |-> {}, raised |-> Null,
                   report |-> report]

\* --------------------------------------------------------- HybridRetriever
RetrievalResult(chunk_id, text, metadata, vector_score, bm25_score, fused_score) ==
    [chunk_id |-> chunk_id, text |-> text, metadata |-> metadata,
     vector_score |-> vector_score, bm25_score |-> bm25_score, fused_score |-> fused_score]

\* Weights are held in tenths: 7 stands for 0.7.  The values handed to the
\* constructor and to the setters: below the range, its ends, inside, above.
WeightValues == {-1, 0, 7, 10, 11}

\* The vector_weight setter: the weight after the call and the exception raised.
set_vector_weight(current, value) ==
    IF ~(0 <= value /\ value <= 10)
    THEN [weight |-> current, raised |-> "vector_weight must be between 0.0 and 1.0"]
    ELSE [weight |-> value, raised |-> Null]

\* The bm25_weight setter.
set_bm25_weight(current, value) ==
    IF ~(0 <= value /\ value <= 10)
    THEN [weight |-> current, raised |-> "bm25_weight must be between 0.0 and 1.0"]
    ELSE [weight |-> value, raised |-> Null]

\* collection.query(query_embeddings, where, n_results): the n_results nearest
\* matching entries, nearest first; the store orders equal distances as it likes.
VectorQuery(coll, query_embedding, where, n_results) ==
    LET matched == { e \in coll : Matches(e, where) }
        dist(e) == Distance(e.embedding, query_embedding)
        orders  == { o \in [1..Cardinality(matched) -> matched] :
                       /\ \A i, j \in DOMAIN o : i # j => o[i] # o[j]
                       /\ \A i, j \in DOMAIN o : i < j => dist(o[i]) <= dist(o[j]) }
    IN  { [i \in DOMAIN Take(o, n_results) |->
              [id |-> o[i].id, document |-> o[i].document, metadata |-> o[i].metadata,
               distance |-> dist(o[i])]] : o \in orders }

\* results is one answer of the store, or the query raised.
_vector_search(results, queryRaises) ==
    IF queryRaises THEN <<>>
    ELSE [idx \in DOMAIN results |->
            LET vector_score == Rat(1, 1 + results[idx].distance)
            IN  RetrievalResult(results[idx].id, results[idx].document,
                                results[idx].metadata, vector_score, None, vector_score)]

LoadFailedMsg == "cannot unpickle index file"

\* load sits outside the try block: what it raises leaves _bm25_search.
_bm25_search(files, query, document_id, k, searchRaises) ==
    IF LoadRaises(files, document_id) THEN [raised |-> LoadFailedMsg, results |-> <<>>]
    ELSE LET bm25_service == load(files, document_id)
         IN  IF bm25_service = None THEN [raised |-> Null, results |-> <<>>]
             ELSE IF searchRaises THEN [raised |-> Null, results |-> <<>>]
             ELSE LET bm25_results == bm25_search(bm25_service, query, k, 0)
                  IN  [raised  |-> Null,
                       results |-> [i \in DOMAIN bm25_results |->
                           RetrievalResult(bm25_results[i].chunk_id, bm25_results[i].text,
                                           bm25_results[i].metadata, None,
                                           Rat(bm25_results[i].score, 1000000),
                                           Rat(bm25_results[i].score, 1000000))]]

IndexOfId(result_map, chunk_id) ==
    IF \E i \in DOMAIN result_map : result_map[i].chunk_id = chunk_id
    THEN CHOOSE i \in DOMAIN result_map : result_map[i].chunk_id = chunk_id
    ELSE 0

\* Mutant: ranks counted from zero.
RrfScore_zero_based(weightTenths, rrf_k, rank) == Rat(weightTenths, 10 * (rrf_k + rank - 1))

\* weight * (1.0 / (rrf_k + rank)), the weight given in tenths
RrfScore(weightTenths, rrf_k, rank) == Rat(weightTenths, 10 * (rrf_k + rank))

\* The first loop of _rrf_fusion; result_map is the dict in insertion order.
RECURSIVE FuseVector(_, _, _, _, _)
FuseVector(result_map, vector_results, rank, vector_weight, rrf_k) ==
    IF rank > Len(vector_results) THEN result_map
    ELSE LET result == vector_results[rank]
             rrf_score == RrfScore(vector_weight, rrf_k, rank)
             at == IndexOfId(result_map, result.chunk_id)
         IN  FuseVector(
               IF at = 0
               THEN Append(result_map,
                           RetrievalResult(result.chunk_id, result.text, result.metadata,
                                           result.vector_score, None, rrf_score))
               ELSE [result_map EXCEPT
                        ![at].vector_score = result.vector_score,
                        ![at].fused_score = RatAdd(@, rrf_score)],
               vector_results, rank + 1, vector_weight, rrf_k)

\* Mutant: a chunk found by both methods takes its text and metadata from the
\* keyword result.
RECURSIVE FuseBm25_overwrites(_, _, _, _, _)
FuseBm25_overwrites(result_map, bm25_results, rank, bm25_weight, rrf_k) ==
    IF rank > Len(bm25_results) THEN result_map
    ELSE LET result == bm25_results[rank]
             rrf_score == RrfScore(bm25_weight, rrf_k, rank)
             at == IndexOfId(result_map, result.chunk_id)
         IN  FuseBm25_overwrites(
               IF at = 0
               THEN Append(result_map,
                           RetrievalResult(result.chunk_id, result.text, result.metadata,
                                           None, result.bm25_score, rrf_score))
               ELSE [result_map EXCEPT
                        ![at].text = result.text,
                        ![at].metadata = result.metadata,
                        ![at].bm25_score = result.bm25_score,
                        ![at].fused_score = RatAdd(@, rrf_score)],
               bm25_results, rank + 1, bm25_weight, rrf_k)

\* The second loop of _rrf_fusion.
RECURSIVE FuseBm25(_, _, _, _, _)
FuseBm25(result_map, bm25_results, rank, bm25_weight, rrf_k) ==
    IF rank > Len(bm25_results) THEN result_map
    ELSE LET result == bm25_results[rank]
             rrf_score == RrfScore(bm25_weight, rrf_k, rank)
             at == IndexOfId(result_map, result.chunk_id)
         IN  FuseBm25(
               IF at = 0
               THEN Append(result_map,
                           RetrievalResult(result.chunk_id, result.text, result.metadata,
                                           None, result.bm25_score, rrf_score))
               ELSE [result_map EXCEPT
                        ![at].bm25_score = result.bm25_score,
                        ![at].fused_score = RatAdd(@, rrf_score)],
               bm25_results, rank + 1, bm25_weight, rrf_k)

\* Mutant: the merged map is returned in insertion order, unsorted.
_rrf_fusion_unsorted(vector_results, bm25_results, vector_weight, bm25_weight, rrf_k) ==
    FuseBm25(FuseVector(<<>>, vector_results, 1, vector_weight, rrf_k),
             bm25_results, 1, bm25_weight, rrf_k)

_rrf_fusion(vector_results, bm25_results, vector_weight, bm25_weight, rrf_k) ==
    LET result_map == FuseBm25(FuseVector(<<>>, vector_results, 1, vector_weight, rrf_k),
                               bm25_results, 1, bm25_weight, rrf_k)
        key == [r \in { result_map[i] : i \in DOMAIN result_map } |-> r.fused_score]
    IN  SortDesc(result_map, key)

\* Mutant: no fallback, an empty keyword list is fused like any other.
search_always_fuses(files, query, document_id, k, answer, queryRaises, searchRaises, vector_weight, bm25_weight) ==
    LET vector_results == _vector_search(answer, queryRaises)
        bm25 == _bm25_search(files, query, document_id, k * 2, searchRaises)
        fused_results == _rrf_fusion(vector_results, bm25.results, vector_weight,
                                     bm25_weight, DEFAULT_RRF_K)
    IN  IF bm25.raised # Null
        THEN [raised |-> bm25.raised, vector_results |-> vector_results,
              bm25_results |-> <<>>, fused_results |-> <<>>, results |-> <<>>]
        ELSE [raised |-> Null, vector_results |-> vector_results,
              bm25_results |-> bm25.results, fused_results |-> fused_results,
              results |-> Take(fused_results, k)]

\* search, given the vector store's answer to the query for 2k candidates and
\* the retriever's weights (in tenths).
search(files, query, document_id, k, answer, queryRaises, searchRaises, vector_weight, bm25_weight) ==
    LET vector_results == _vector_search(answer, queryRaises)
        bm25 == _bm25_search(files, query, document_id, k * 2, searchRaises)
    IN  IF bm25.raised # Null
        THEN [raised |-> bm25.raised, vector_results |-> vector_results,
              bm25_results |-> <<>>, fused_results |-> <<>>, results |-> <<>>]
        ELSE IF bm25.results = <<>>
        THEN [raised |-> Null, vector_results |-> vector_results,
              bm25_results |-> <<>>, fused_results |-> <<>>,
              results |-> Take(vector_results, k)]
        ELSE LET fused_results == _rrf_fusion(vector_results, bm25.results,
                                              vector_weight, bm25_weight,
                                              DEFAULT_RRF_K)
             IN  [raised |-> Null, vector_results |-> vector_results,
                  bm25_results |-> bm25.results, fused_results |-> fused_results,
                  results |-> Take(fused_results, k)]

\* ------------------------------------------------------------------ state
VARIABLES
    vstore,      \* the vector collection: a set of entries, one per chunk id
    kstore,      \* the keyword index directory: document id -> index file
    last,        \* the most recent call: arguments, store calls made, outcome
    prev,        \* the call before it, when that was a delete_document
    deletesOk,   \* every delete issued to either store so far has succeeded
    callsOk,     \* every index_document / delete_document so far reported success
    ops,         \* number of index/delete calls made
    indexedAs,   \* per document id: what the last successful index_document
                 \* indexed, or that a delete_document removed the record since
    service,     \* a BM25Service instance held by a caller
    memory,      \* the list objects of a BM25Service and the references its
                 \* caller holds to them
    running,     \* the calls in progress when calls overlap: where each one
                 \* is, what it has read, and what searches served meanwhile
    vector_weight,   \* HybridRetriever._vector_weight, in tenths
    bm25_weight      \* HybridRetriever._bm25_weight, in tenths

vars == <<vstore, kstore, last, prev, deletesOk, callsOk, ops, indexedAs, service, memory, running, vector_weight, bm25_weight>>

\* The retriever's configuration, untouched by the IndexManager.
weights == <<vector_weight, bm25_weight>>

NoCall == [op |-> "none"]
NeverIndexed == [state |-> "never"]
Deleted == [state |-> "deleted"]

\* No call is in progress.
Idle == [pc |-> "idle"]
NoneRunning == [index |-> Idle, reconcile |-> Idle, removed |-> {}, served |-> {}]

\* Empty stores, no call made yet.
InitStores ==
    /\ vstore = {}
    /\ kstore = [d \in DocIds |-> NoRecord]
    /\ last = NoCall
    /\ prev = NoCall
    /\ deletesOk = TRUE
    /\ callsOk = TRUE
    /\ ops = 0
    /\ indexedAs = [d \in DocIds |-> NeverIndexed]
    /\ service = EmptyService
    /\ memory = BM25Service_init
    /\ running = NoneRunning

\* A retriever constructed with the default weights.
Init ==
    /\ InitStores
    /\ vector_weight = VectorWeightTenths
    /\ bm25_weight = Bm25WeightTenths

DeleteFailed(calls) ==
    \E i \in DOMAIN calls : calls[i].op = "delete" /\ calls[i].raised

\* The fault combinations that differ in effect: a fault of a step that the
\* call does not reach is not enumerated.
IndexFaults ==
    { f \in [add : BOOLEAN, save : SaveFaults, delete : BOOLEAN] :
        /\ f.add => (f.save = "none" /\ ~f.delete) }

Remembered == IF last.op \in {"delete_document", "save"} THEN last ELSE NoCall

IndexCall(request, f) ==
    \E out \in {index_document(vstore, kstore, request, f.add, f.save, f.delete)} :
        /\ vstore' = out.coll
        /\ kstore' = out.files
        /\ last' = [op |-> "index_document", request |-> request, calls |-> out.calls,
                    raised |-> out.raised, keywordError |-> out.keywordError,
                    result |-> out.result]
        /\ prev' = Remembered
        /\ deletesOk' = (deletesOk /\ ~DeleteFailed(out.calls))
        /\ callsOk' = (callsOk /\ out.result.success)
        /\ ops' = ops + 1
        /\ indexedAs' = IF out.result.success
                        THEN [indexedAs EXCEPT ![request.document_id] =
                                [state |-> "indexed", chunk_ids |-> request.chunk_ids,
                                 texts |-> request.texts]]
                        ELSE indexedAs
        /\ UNCHANGED <<service, memory, running, weights>>

DeleteCall(document_id, user_id, deleteRaises, unlinkRaises) ==
    \E out \in {delete_document(vstore, kstore, document_id, user_id,
                                deleteRaises, unlinkRaises)} :
        /\ vstore' = out.coll
        /\ kstore' = out.files
        /\ last' = [op |-> "delete_document", document_id |-> document_id,
                    user_id |-> user_id, calls |-> out.calls,
                    raised |-> out.raised, result |-> out.result]
        /\ prev' = Remembered
        /\ deletesOk' = (deletesOk /\ ~DeleteFailed(out.calls))
        /\ callsOk' = (callsOk /\ out.result.success)
        /\ ops' = ops + 1
        /\ indexedAs' = IF out.result.bm25_deleted
                        THEN [indexedAs EXCEPT ![document_id] = Deleted]
                        ELSE indexedAs
        /\ UNCHANGED <<service, memory, running, weights>>

IndexDocument ==
    /\ ops < MaxOps
    /\ \E request \in Requests, f \in IndexFaults : IndexCall(request, f)

DeleteDocument ==
    /\ ops < MaxOps
    /\ \E document_id \in DocIds, user_id \in UserIds, deleteRaises \in BOOLEAN,
          unlinkRaises \in BOOLEAN :
            DeleteCall(document_id, user_id, deleteRaises, unlinkRaises)

Next == IndexDocument \/ DeleteDocument

Spec == Init /\ [][Next]_vars

\* ------------------------------------------------- runs that end in a search
SetupIndex ==
    /\ ops < MaxSetup
    /\ last.op # "search"
    /\ \E request \in Requests, f \in IndexFaults : IndexCall(request, f)

SetupDelete ==
    /\ ops < MaxSetup
    /\ last.op # "search"
    /\ \E document_id \in DocIds, user_id \in UserIds, deleteRaises \in BOOLEAN,
          unlinkRaises \in BOOLEAN :
            DeleteCall(document_id, user_id, deleteRaises, unlinkRaises)

SearchCall(queryRaises, searchRaises) ==
    /\ last.op # "search"
    /\ \E query \in Queries, document_id \in DocIds, user_id \in UserIds,
          query_embedding \in QueryEmbeddings, k \in 1..MaxK :
        \E answer \in VectorQuery(vstore, query_embedding,
                                  Where(document_id, user_id), k * 2) :
            \E out \in {search(kstore, query, document_id, k, answer,
                              queryRaises, searchRaises, vector_weight, bm25_weight)} :
                /\ last' = [op |-> "search", query |-> query, document_id |-> document_id,
                            user_id |-> user_id, query_embedding |-> query_embedding,
                            k |-> k, raised |-> out.raised,
                            queryRaised |-> queryRaises, searchRaised |-> searchRaises,
                            vector_results |-> out.vector_results,
                            bm25_results |-> out.bm25_results,
                            fused_results |-> out.fused_results,
                            results |-> out.results]
                /\ prev' = Remembered
                /\ UNCHANGED <<vstore, kstore, deletesOk, callsOk, ops, indexedAs, service, memory, running, weights>>

Search == \E queryRaises \in BOOLEAN, searchRaises \in BOOLEAN :
              SearchCall(queryRaises, searchRaises)

NextSearch == SetupIndex \/ SetupDelete \/ Search

SearchSpec == Init /\ [][NextSearch]_vars

\* ------------------------------------- a retriever with configurable weights
\* HybridRetriever.__init__ stores the weights it is given.
WeightInit ==
    /\ InitStores
    /\ vector_weight \in WeightValues
    /\ bm25_weight \in WeightValues

NoFault == [add |-> FALSE, save |-> "none", delete |-> FALSE]

\* One document is indexed, no store failing.
WeightIndex ==
    /\ ops = 0
    /\ last.op # "search"
    /\ \E request \in Requests : IndexCall(request, NoFault)

SetVectorWeight ==
    /\ last.op # "search"
    /\ \E value \in WeightValues :
          \E out \in {set_vector_weight(vector_weight, value)} :
              /\ vector_weight' = out.weight
              /\ last' = [op |-> "set_vector_weight", value |-> value,
                          before |-> vector_weight, raised |-> out.raised]
              /\ prev' = Remembered
              /\ UNCHANGED <<vstore, kstore, deletesOk, callsOk, ops, indexedAs, service, memory, running, bm25_weight>>

SetBm25Weight ==
    /\ last.op # "search"
    /\ \E value \in WeightValues :
          \E out \in {set_bm25_weight(bm25_weight, value)} :
              /\ bm25_weight' = out.weight
              /\ last' = [op |-> "set_bm25_weight", value |-> value,
                          before |-> bm25_weight, raised |-> out.raised]
              /\ prev' = Remembered
              /\ UNCHANGED <<vstore, kstore, deletesOk, callsOk, ops, indexedAs, service, memory, running, vector_weight>>

\* A search with both stores answering.
WeightSearch == SearchCall(FALSE, FALSE)

NextWeight == WeightIndex \/ SetVectorWeight \/ SetBm25Weight \/ WeightSearch

WeightSpec == WeightInit /\ [][NextWeight]_vars

\* ------------------------------- a BM25Service and the BM25IndexStore, alone
\* The chunk lists handed to build_index: slots lo..hi of a document.
ServiceChunks(d, lo, hi) ==
    [i \in DOMAIN Range(lo, hi) |->
        ChunkData(<<d, Range(lo, hi)[i]>>, TextOf(Range(lo, hi)[i]),
                  [user_id |-> "u1", document_id |-> d])]

BuildIndex ==
    \E d \in DocIds, lo \in ChunkIdx, hi \in ChunkIdx :
        \E out \in {build_index(service, ServiceChunks(d, lo, hi))} :
            /\ service' = out.service
            /\ last' = [op |-> "build_index", chunks |-> ServiceChunks(d, lo, hi),
                        raised |-> out.raised]
            /\ prev' = Remembered
            /\ UNCHANGED <<vstore, kstore, deletesOk, callsOk, ops, indexedAs, memory, running, weights>>

Clear ==
    /\ service' = clear(service)
    /\ last' = [op |-> "clear"]
    /\ prev' = Remembered
    /\ UNCHANGED <<vstore, kstore, deletesOk, callsOk, ops, indexedAs, memory, running, weights>>

\* score_threshold, in units of 1e-6: below every score, the default, and
\* above some scores.
ScoreThresholds == {-1000000, 0, 100000}

ServiceSearch ==
    \E query \in Queries, k \in 1..MaxK, score_threshold \in ScoreThresholds :
        \E out \in {service_search(service, query, k, score_threshold)} :
            /\ last' = [op |-> "service_search", query |-> query, k |-> k,
                        score_threshold |-> score_threshold,
                        raised |-> out.raised, results |-> out.results]
            /\ prev' = Remembered
            /\ UNCHANGED <<vstore, kstore, deletesOk, callsOk, ops, indexedAs, service, memory, running, weights>>

StoreSave ==
    \E document_id \in DocIds, fault \in SaveFaults :
        \E out \in {save(kstore, document_id, service, fault)} :
            /\ kstore' = out.files
            /\ last' = [op |-> "save", document_id |-> document_id, service |-> service,
                        raised |-> out.raised]
            /\ prev' = Remembered
            /\ UNCHANGED <<vstore, deletesOk, callsOk, ops, indexedAs, service, memory, running, weights>>

StoreLoad ==
    \E document_id \in DocIds :
        /\ last' = [op |-> "load", document_id |-> document_id,
                    raised |-> IF LoadRaises(kstore, document_id)
                               THEN LoadFailedMsg ELSE Null,
                    service |-> IF LoadRaises(kstore, document_id)
                                THEN None ELSE load(kstore, document_id)]
        /\ prev' = Remembered
        /\ UNCHANGED <<vstore, kstore, deletesOk, callsOk, ops, indexedAs, service, memory, running, weights>>

StoreDelete ==
    \E document_id \in DocIds, unlinkRaises \in BOOLEAN :
        \E out \in {delete(kstore, document_id, unlinkRaises)} :
            /\ kstore' = out.files
            /\ last' = [op |-> "delete", document_id |-> document_id,
                        deleted |-> out.deleted, raised |-> out.raised]
            /\ prev' = Remembered
            /\ UNCHANGED <<vstore, deletesOk, callsOk, ops, indexedAs, service, memory, running, weights>>

NextService ==
    BuildIndex \/ Clear \/ ServiceSearch \/ StoreSave \/ StoreLoad \/ StoreDelete

ServiceSpec == Init /\ [][NextService]_vars

\* ------------------------------------------ runs that end in a reconciliation
ReconcileDocIds == {"d1", "d2"}

ReconcileInit ==
    /\ vstore = {}
    /\ kstore = [d \in ReconcileDocIds |-> NoRecord]
    /\ last = NoCall
    /\ prev = NoCall
    /\ deletesOk = TRUE
    /\ callsOk = TRUE
    /\ ops = 0
    /\ indexedAs = [d \in ReconcileDocIds |-> NeverIndexed]
    /\ service = EmptyService
    /\ memory = BM25Service_init
    /\ running = NoneRunning
    /\ vector_weight = VectorWeightTenths
    /\ bm25_weight = Bm25WeightTenths

\* Documents of one or more chunks, indexed by one user.
ReconcileRequests == { Request(d, "u1", 1, hi) : d \in ReconcileDocIds, hi \in ChunkIdx }

ReconcileIndex ==
    /\ ops < MaxSetup
    /\ last.op # "reconcile"
    /\ \E request \in ReconcileRequests, f \in IndexFaults : IndexCall(request, f)

ReconcileDelete ==
    /\ ops < MaxSetup
    /\ last.op # "reconcile"
    /\ \E document_id \in ReconcileDocIds, deleteRaises \in BOOLEAN,
          unlinkRaises \in BOOLEAN :
            DeleteCall(document_id, "u1", deleteRaises, unlinkRaises)

Reconcile ==
    /\ last.op # "reconcile"
    /\ \E auto_fix \in BOOLEAN, getRaises \in BOOLEAN, failing \in SUBSET ReconcileDocIds :
          \E out \in {reconcile(vstore, kstore, auto_fix, getRaises, failing)} :
              /\ vstore' = out.coll
              /\ kstore' = out.files
              /\ last' = [op |-> "reconcile", auto_fix |-> auto_fix, calls |-> out.calls,
                          failing |-> failing, raised |-> out.raised,
                          report |-> out.report]
              /\ prev' = Remembered
              /\ UNCHANGED <<deletesOk, callsOk, ops, indexedAs, service, memory, running, weights>>

NextReconcile == ReconcileIndex \/ ReconcileDelete \/ Reconcile

ReconcileSpec == ReconcileInit /\ [][NextReconcile]_vars

\* ------------------------------------------------------- the tokenizer, alone
TokenizerTexts ==
    { <<>>, <<" ">>, <<" ", " ">>, <<",">>, <<"U+3002">>,
      <<"A", " ", "b">>, <<"b", ",", "C">>, <<"A", "U+201C", "b">>,
      <<"U+4F60", "U+597D">>, <<"U+597D", "U+4F60">>,
      <<"U+4F60", "U+597D", "U+3002">>, <<"U+300A", "U+4F60", "U+597D">>,
      <<"U+201C", "U+4F60", "U+597D">>,
      <<"A", " ", "U+4F60", "U+597D", " ", "b">>,
      <<"A", "b", "c", "z", "U+4F60">> }

\* The calls made so far: text and tokens returned.
History == IF last.op = "tokenize" THEN last.history ELSE <<>>

Tokenize ==
    /\ ops < MaxOps
    /\ \E text \in TokenizerTexts :
          /\ last' = [op |-> "tokenize", text |-> text, tokens |-> tokenize(text),
                      history |-> Append(History, [text |-> text,
                                                   tokens |-> tokenize(text)])]
          /\ prev' = Remembered
          /\ ops' = ops + 1
          /\ UNCHANGED <<vstore, kstore, deletesOk, callsOk, indexedAs, service, memory, running, weights>>

NextTokenizer == Tokenize

TokenizerSpec == Init /\ [][NextTokenizer]_vars

\* --------------------------------------- requests that carry caller metadata
CallerMaps ==
    { EmptyMap,
      [custom_field |-> "value"],
      [user_id |-> "intruder", document_id |-> "other", custom_field |-> "value"] }

\* Fewer maps than texts, as many, or more.
MetadataRequests ==
    { [Request(d, u, 1, hi) EXCEPT !.metadatas = m] :
        d \in DocIds, u \in UserIds, hi \in ChunkIdx,
        m \in UNION { [1..n -> CallerMaps] : n \in 0..MaxMetadatas } }

MetadataIndex ==
    /\ ops < MaxSetup
    /\ \E request \in MetadataRequests, saveFault \in {"none", "write"} :
        \E out \in {index_document(vstore, kstore, request, FALSE, saveFault, FALSE)} :
          /\ vstore' = out.coll
          /\ kstore' = out.files
          /\ last' = [op |-> "index_document", request |-> request, calls |-> out.calls,
                      raised |-> out.raised, keywordError |-> out.keywordError,
                      result |-> out.result,
                      caller_metadatas |-> CallerMapsAfter(request)]
          /\ prev' = Remembered
          /\ deletesOk' = (deletesOk /\ ~DeleteFailed(out.calls))
          /\ callsOk' = (callsOk /\ out.result.success)
          /\ ops' = ops + 1
          /\ indexedAs' = IF out.result.success
                          THEN [indexedAs EXCEPT ![request.document_id] =
                                  [state |-> "indexed", chunk_ids |-> request.chunk_ids,
                                   texts |-> request.texts]]
                          ELSE indexedAs
          /\ UNCHANGED <<service, memory, running, weights>>

NextMetadata == MetadataIndex

MetadataSpec == Init /\ [][NextMetadata]_vars

\* ----------------------- a BM25Service and a caller that keeps its references
Called(mem) ==
    /\ memory' = mem
    /\ ops' = ops + 1
    /\ prev' = Remembered
    /\ UNCHANGED <<vstore, kstore, deletesOk, callsOk, indexedAs, service, running, weights>>

\* The caller makes a list of chunks, passes it to build_index and keeps it.
BuildIndexAt ==
    /\ ops < MaxOps
    /\ \E d \in DocIds, lo \in ChunkIdx, hi \in ChunkIdx :
        \E out \in {build_index_at(
                       [memory EXCEPT !.heap = Append(memory.heap, ServiceChunks(d, lo, hi)),
                                      !.caller.passed = New(memory.heap)],
                       New(memory.heap))} :
            /\ last' = [op |-> "build_index", raised |-> out.raised]
            /\ Called(out.mem)

ClearAt ==
    /\ ops < MaxOps
    /\ last' = [op |-> "clear"]
    /\ Called(clear_at(memory))

GetChunks ==
    /\ ops < MaxOps
    /\ last' = [op |-> "get_chunks"]
    /\ Called(get_chunks(memory))

GetTokenizedCorpus ==
    /\ ops < MaxOps
    /\ last' = [op |-> "get_tokenized_corpus"]
    /\ Called(get_tokenized_corpus(memory))

\* The caller pops from, or appends x to, the list at address a.
Mutate(target, a, x) ==
    /\ ops < MaxOps
    /\ a # NoRef
    /\ \E how \in {"pop", "append"} :
          /\ how = "pop" => memory.heap[a] # <<>>
          /\ last' = [op |-> "mutate", target |-> target, how |-> how]
          /\ Called([memory EXCEPT !.heap = IF how = "pop" THEN ListPop(memory.heap, a)
                                           ELSE ListAppend(memory.heap, a, x)])

\* ... the list it passed to build_index,
MutatePassedList ==
    \E d \in DocIds : Mutate("passed", memory.caller.passed, ServiceChunks(d, 1, 1)[1])

\* ... the list get_chunks returned,
MutateReturnedChunks ==
    \E d \in DocIds : Mutate("chunks", memory.caller.chunks, ServiceChunks(d, 1, 1)[1])

\* ... the list get_tokenized_corpus returned (an element it already holds is
\* appended),
MutateReturnedCorpus ==
    /\ memory.caller.corpus # NoRef
    /\ Mutate("corpus", memory.caller.corpus,
              IF memory.heap[memory.caller.corpus] = <<>> THEN NoRef
              ELSE memory.heap[memory.caller.corpus][1])

\* ... or one of the token lists in it.
MutateTokenList ==
    /\ memory.caller.corpus # NoRef
    /\ \E i \in DOMAIN memory.heap[memory.caller.corpus] :
          /\ memory.heap[memory.caller.corpus][i] # NoRef
          /\ Mutate("tokens", memory.heap[memory.caller.corpus][i], <<"z">>)

SearchAt ==
    \E query \in Queries, k \in 1..MaxK :
        \E out \in {service_search(ServiceOf(memory), query, k, 0)} :
            /\ last' = [op |-> "service_search", query |-> query, k |-> k,
                        raised |-> out.raised, results |-> out.results]
            /\ prev' = Remembered
            /\ UNCHANGED <<vstore, kstore, deletesOk, callsOk, ops, indexedAs, service, memory, running, weights>>

NextSharing ==
    \/ BuildIndexAt \/ ClearAt \/ GetChunks \/ GetTokenizedCorpus
    \/ MutatePassedList \/ MutateReturnedChunks \/ MutateReturnedCorpus \/ MutateTokenList
    \/ SearchAt

SharingSpec == Init /\ [][NextSharing]_vars

\* ------------------------------------------------------- overlapping calls
\* IndexManager, IndexReconciler and HybridRetriever take no lock and share the
\* two stores: calls made from different threads or processes interleave
\* between their store calls.  Each store call is one step.

\* A document indexed before the calls overlap, no store failing.
OverlapSetup ==
    /\ ops = 0
    /\ running = NoneRunning
    /\ last = NoCall
    /\ \E request \in Requests : IndexCall(request, NoFault)

\* index_document up to the return of the vector add (step 1).
IndexBegin ==
    /\ running.index.pc = "idle"
    /\ \E request \in Requests, addRaises \in BOOLEAN :
        /\ addRaises => request.texts # <<>>
        /\ vstore' = IF request.texts = <<>> \/ addRaises THEN vstore
                     ELSE VectorAdd(vstore, request.texts, request.embeddings,
                                    _prepare_metadatas(request), request.chunk_ids)
        /\ running' = [running EXCEPT !.index =
                         IF request.texts = <<>>
                         THEN [pc |-> "done", request |-> request,
                               result |-> FailedIndex(request, <<NoTextsMsg>>)]
                         ELSE IF addRaises
                         THEN [pc |-> "done", request |-> request,
                               result |-> FailedIndex(request,
                                            <<"Vector store indexing failed: ", AddFailedMsg>>)]
                         ELSE [pc |-> "added", request |-> request,
                               metadatas |-> _prepare_metadatas(request)]]
        /\ UNCHANGED <<kstore, last, prev, deletesOk, callsOk, ops, indexedAs, service, memory, weights>>

\* Step 2: the keyword record is built and saved; the call returns success, or
\* goes on to the rollback when the step raised.
IndexSave ==
    /\ running.index.pc = "added"
    /\ \E saveFault \in SaveFaults :
        \E kw \in {_index_bm25_store(kstore, running.index.request,
                                     running.index.metadatas, saveFault)} :
            /\ kstore' = kw.files
            /\ running' = [running EXCEPT !.index =
                             IF kw.raised # Null
                             THEN [pc |-> "rollback", request |-> running.index.request,
                                   keywordError |-> kw.raised]
                             ELSE [pc |-> "done", request |-> running.index.request,
                                   result |-> IndexResult(TRUE,
                                                running.index.request.document_id,
                                                TRUE, TRUE, NoError)]]
            /\ UNCHANGED <<vstore, last, prev, deletesOk, callsOk, ops, indexedAs, service, memory, weights>>

\* Step 3: the rollback's vector delete, and the failed result.
IndexRollback ==
    /\ running.index.pc = "rollback"
    /\ \E deleteRaises \in BOOLEAN :
        \E rb \in {_rollback_vector_store(vstore, running.index.request.document_id,
                                          running.index.request.user_id, deleteRaises)} :
            /\ vstore' = rb.coll
            /\ running' = [running EXCEPT !.index =
                             [pc |-> "done", request |-> running.index.request,
                              result |-> FailedIndex(running.index.request,
                                           <<"BM25 indexing failed (vector store rolled back): ",
                                             running.index.keywordError>>)]]
            /\ UNCHANGED <<kstore, last, prev, deletesOk, callsOk, ops, indexedAs, service, memory, weights>>

\* reconcile: the scan of the vector store.
ReconcileScanVector ==
    /\ running.reconcile.pc = "idle"
    /\ \E auto_fix \in BOOLEAN :
        running' = [running EXCEPT !.reconcile =
                      [pc |-> "scanned", auto_fix |-> auto_fix,
                       chromadb_documents |-> get_chromadb_document_ids(vstore)]]
    /\ UNCHANGED <<vstore, kstore, last, prev, deletesOk, callsOk, ops, indexedAs, service, memory, weights>>

\* reconcile: the scan of the keyword store and the report; with auto_fix and
\* an inconsistent report, _apply_fixes is entered.
ReconcileScanKeyword ==
    /\ running.reconcile.pc = "scanned"
    /\ \E report \in {ReconciliationReport(running.reconcile.chromadb_documents,
                                           get_bm25_document_ids(kstore))} :
        running' = [running EXCEPT !.reconcile =
                      IF running.reconcile.auto_fix /\ ~is_consistent(report)
                         /\ report.orphaned_in_bm25 # {}
                      THEN [pc |-> "fixing", report |-> report,
                            todo |-> report.orphaned_in_bm25]
                      ELSE [pc |-> "done", report |-> report]]
    /\ UNCHANGED <<vstore, kstore, last, prev, deletesOk, callsOk, ops, indexedAs, service, memory, weights>>

\* _apply_fixes: one turn of its loop over the keyword-only documents.  removed
\* notes, for each record the loop unlinked, whether the document had entries
\* in the vector store at that moment.
ReconcileFix ==
    /\ running.reconcile.pc = "fixing"
    /\ \E doc_id \in running.reconcile.todo, unlinkRaises \in BOOLEAN :
        \E out \in {delete(kstore, doc_id, unlinkRaises)} :
            /\ kstore' = out.files
            /\ running' =
                 [running EXCEPT
                    !.reconcile =
                        LET report == [running.reconcile.report EXCEPT
                                         !.fixed_bm25 = IF out.deleted THEN @ \cup {doc_id} ELSE @,
                                         !.fix_errors = IF out.raised # Null
                                                        THEN @ \cup {doc_id} ELSE @]
                        IN  IF running.reconcile.todo = {doc_id}
                            THEN [pc |-> "done", report |-> report]
                            ELSE [pc |-> "fixing", report |-> report,
                                  todo |-> running.reconcile.todo \ {doc_id}],
                    !.removed = IF out.deleted
                                THEN @ \cup {[document_id |-> doc_id,
                                              in_vector |-> doc_id \in
                                                  get_chromadb_document_ids(vstore)]}
                                ELSE @]
    /\ UNCHANGED <<vstore, last, prev, deletesOk, callsOk, ops, indexedAs, service, memory, weights>>

\* The chunks among results that the vector search found and that the vector
\* add of the index_document call in progress wrote.
WrittenByRunning(out) ==
    IF running.index.pc \in {"added", "rollback"}
    THEN { out.results[j].chunk_id : j \in
             { j \in DOMAIN out.results :
                 /\ \E i \in DOMAIN running.index.request.chunk_ids :
                       running.index.request.chunk_ids[i] = out.results[j].chunk_id
                 /\ \E i \in DOMAIN out.vector_results :
                       out.vector_results[i].chunk_id = out.results[j].chunk_id } }
    ELSE {}

\* HybridRetriever.search, no store failing, once in a run.  served collects
\* what it returned of the chunks written by the index_document call in progress.
OverlapSearch ==
    /\ last.op # "search"
    /\ \E query \in Queries, document_id \in DocIds, user_id \in UserIds,
          query_embedding \in QueryEmbeddings, k \in 1..MaxK :
        \E answer \in VectorQuery(vstore, query_embedding,
                                  Where(document_id, user_id), k * 2) :
            \E out \in {search(kstore, query, document_id, k, answer,
                              FALSE, FALSE, vector_weight, bm25_weight)} :
                /\ last' = [op |-> "search", query |-> query, document_id |-> document_id,
                            user_id |-> user_id, query_embedding |-> query_embedding,
                            k |-> k, raised |-> out.raised,
                            queryRaised |-> FALSE, searchRaised |-> FALSE,
                            vector_results |-> out.vector_results,
                            bm25_results |-> out.bm25_results,
                            fused_results |-> out.fused_results,
                            results |-> out.results]
                /\ running' = [running EXCEPT !.served = @ \cup WrittenByRunning(out)]
                /\ UNCHANGED <<vstore, kstore, prev, deletesOk, callsOk, ops, indexedAs, service, memory, weights>>

IndexStep == IndexBegin \/ IndexSave \/ IndexRollback

\* An index_document call and a reconciliation, interleaved.
NextReconcileOverlap ==
    \/ OverlapSetup
    \/ IndexStep
    \/ ReconcileScanVector
    \/ ReconcileScanKeyword
    \/ ReconcileFix

ReconcileOverlapSpec == Init /\ [][NextReconcileOverlap]_vars

\* An index_document call and a search, interleaved.
NextSearchOverlap ==
    \/ OverlapSetup
    \/ IndexStep
    \/ OverlapSearch

SearchOverlapSpec == Init /\ [][NextSearchOverlap]_vars

\* ================================================================ properties
InVectorStore(document_id) == \E e \in vstore : e.metadata.document_id = document_id
InKeywordStore(document_id) == exists(kstore, document_id)

AddSucceeded(call) ==
    call.calls # <<>> /\ call.calls[1].op = "add" /\ ~call.calls[1].raised
AddRaised(call) ==
    call.calls # <<>> /\ call.calls[1].op = "add" /\ call.calls[1].raised
DeleteCalls(call) == { i \in DOMAIN call.calls : call.calls[i].op = "delete" }
SaveCalls(call) == { i \in DOMAIN call.calls : call.calls[i].op = "save" }

\* C1: after any sequence of completed index_document and delete_document
\* calls in which every delete issued to either store succeeded, each document
\* id is present in both the vector store and the keyword store or in neither.
C1_StoresAgree ==
    deletesOk => \A d \in DocIds : InVectorStore(d) <=> InKeywordStore(d)

\* C2: when the vector add succeeds and building or saving the keyword index
\* fails, index_document issues one vector delete scoped to the request's
\* {document_id, user_id} and returns, without raising, success = false,
\* vector_indexed = false, bm25_indexed = false and an error carrying the
\* keyword failure message, whether the rollback delete succeeds or raises.
C2_RollbackOnKeywordFailure ==
    (last.op = "index_document" /\ AddSucceeded(last) /\ last.keywordError # Null)
    =>  /\ last.raised = Null
        /\ Cardinality(DeleteCalls(last)) = 1
        /\ LET rollback == last.calls[Len(last.calls)]
           IN  /\ rollback.store = "vector"
               /\ rollback.op = "delete"
               /\ rollback.arg = Where(last.request.document_id, last.request.user_id)
        /\ last.result =
             IndexResult(FALSE, last.request.document_id, FALSE, FALSE,
                         <<"BM25 indexing failed (vector store rolled back): ",
                           last.keywordError>>)

\* A keyword failure whose rollback delete raised as well.
C2_Witness ==
    /\ last.op = "index_document"
    /\ AddSucceeded(last)
    /\ last.keywordError # Null
    /\ last.calls[Len(last.calls)].op = "delete"
    /\ last.calls[Len(last.calls)].raised

C3_Step ==
    (last'.op = "index_document" /\ (last'.request.texts = <<>> \/ AddRaised(last')))
    =>  /\ last'.raised = Null
        /\ ~last'.result.success
        /\ ~last'.result.vector_indexed
        /\ ~last'.result.bm25_indexed
        /\ last'.result.error # NoError
        /\ last'.request.texts = <<>> => last'.calls = <<>>
        /\ AddRaised(last') => Len(last'.calls) = 1
        /\ SaveCalls(last') = {} /\ DeleteCalls(last') = {}
        /\ kstore' = kstore

\* C3: with empty texts (no store call at all) or a vector add that raises,
\* index_document returns success = false, vector_indexed = false,
\* bm25_indexed = false and a non-empty error, makes no keyword save and no
\* vector delete, and leaves the keyword store as it was.
C3_NothingFurther == [][C3_Step]_vars

\* A call whose vector add raised, for a document without a keyword record.
C3_Witness ==
    /\ last.op = "index_document"
    /\ AddRaised(last)
    /\ ~exists(kstore, last.request.document_id)

EntriesOf(request) ==
    { [id |-> request.chunk_ids[i], document |-> request.texts[i],
       embedding |-> request.embeddings[i],
       metadata |-> [user_id |-> request.user_id, document_id |-> request.document_id]]
      : i \in DOMAIN request.chunk_ids }

VectorHolds(call) == AddSucceeded(call) /\ EntriesOf(call.request) \subseteq vstore

KeywordHolds(call) ==
    /\ \E i \in SaveCalls(call) : ~call.calls[i].raised
    /\ kstore[call.request.document_id] # NoRecord
    /\ kstore[call.request.document_id] # Corrupt
    /\ [i \in DOMAIN kstore[call.request.document_id].chunks |->
           kstore[call.request.document_id].chunks[i].chunk_id] = call.request.chunk_ids
    /\ [i \in DOMAIN kstore[call.request.document_id].chunks |->
           kstore[call.request.document_id].chunks[i].text] = call.request.texts

\* C4: when index_document returns, vector_indexed is true exactly when the
\* vector store holds the entries this request added, bm25_indexed is true
\* exactly when the keyword store holds the record built from this request's
\* chunks, and success is true exactly when both flags are.
C4_FlagsTellStores ==
    last.op = "index_document"
    =>  /\ last.result.vector_indexed <=> VectorHolds(last)
        /\ last.result.bm25_indexed <=> KeywordHolds(last)
        /\ last.result.success <=> (last.result.vector_indexed /\ last.result.bm25_indexed)

C5_Step ==
    last'.op = "delete_document"
    =>  LET r == last'.result
            c == last'.calls
        IN  /\ last'.raised = Null
            /\ Len(c) = 2
            /\ c[1].store = "vector" /\ c[1].op = "delete"
            /\ c[1].arg = Where(last'.document_id, last'.user_id)
            /\ c[2].store = "bm25" /\ c[2].op = "delete" /\ c[2].arg = last'.document_id
            /\ r.vector_deleted <=> ~c[1].raised
            /\ r.bm25_deleted <=> (exists(kstore, last'.document_id)
                                    /\ ~exists(kstore', last'.document_id))
            /\ r.success <=> (r.vector_deleted \/ r.bm25_deleted)
            /\ r.error = Join((IF c[1].raised
                               THEN << <<"Vector store deletion failed: ", DeleteFailedMsg>> >>
                               ELSE <<>>)
                              \o (IF c[2].raised
                                  THEN << <<"BM25 store deletion failed: ", UnlinkFailedMsg>> >>
                                  ELSE <<>>))

\* C5: delete_document never raises and attempts both deletions whatever the
\* other's outcome; vector_deleted is true exactly when the vector delete
\* (scoped by document_id and user_id) did not fail, bm25_deleted exactly when
\* a keyword record existed and was removed, success = vector_deleted or
\* bm25_deleted, and error joins the failure messages (none when none failed).
C5_BestEffortDelete == [][C5_Step]_vars

\* The vector delete failed and the keyword record was removed all the same.
C5_Witness ==
    /\ last.op = "delete_document"
    /\ last.calls[1].raised
    /\ last.result.bm25_deleted

SameDeleteTwice ==
    /\ prev.op = "delete_document"
    /\ last.op = "delete_document"
    /\ last.document_id = prev.document_id
    /\ last.user_id = prev.user_id

BothSucceedSecondFindsNothing ==
    /\ prev.raised = Null /\ last.raised = Null
    /\ prev.result.success /\ last.result.success
    /\ prev.result.error = NoError /\ last.result.error = NoError
    /\ ~last.result.bm25_deleted

C7_SearchNeverRaises ==
    last.op = "search"
    =>  /\ last.raised = Null
        /\ last.queryRaised => last.vector_results = <<>>
        /\ last.searchRaised => last.bm25_results = <<>>

\* C8: every result of search(query, document_id, user_id, ...) is a chunk
\* stored under that document_id and that user_id.
C8_ResultsBelongToCaller ==
    last.op = "search"
    =>  \A i \in DOMAIN last.results :
            /\ last.results[i].metadata.document_id = last.document_id
            /\ last.results[i].metadata.user_id = last.user_id

Min(a, b) == IF a < b THEN a ELSE b

\* C9: whenever the keyword side yields no result (no record, no matching
\* chunk, or a keyword search that raised), search returns the first
\* min(k, |V|) vector results, by vector_score descending, each with
\* bm25_score None and fused_score equal to its vector_score.
C9_Fallback ==
    (last.op = "search" /\ last.raised = Null /\ last.bm25_results = <<>>)
    =>  LET V == last.vector_results
            R == last.results
        IN  /\ Len(R) = Min(last.k, Len(V))
            /\ \A i \in DOMAIN R :
                  /\ R[i] = V[i]
                  /\ R[i].bm25_score = None
                  /\ R[i].vector_score # None
                  /\ R[i].fused_score = R[i].vector_score
            /\ \A i, j \in DOMAIN R :
                  i < j => ~RatGt(R[j].vector_score, R[i].vector_score)

\* The keyword search raised on a readable record and the vector list was cut to k.
C9_Witness ==
    /\ last.op = "search"
    /\ last.raised = Null
    /\ last.searchRaised
    /\ kstore[last.document_id] # NoRecord
    /\ Len(last.vector_results) > last.k
    /\ Len(last.results) = last.k

Ids(results) == { results[i].chunk_id : i \in DOMAIN results }

\* C10: for non-empty V and B, _rrf_fusion returns one result per chunk id of
\* ids(V) \cup ids(B) and nothing else; vector_score is set exactly for the
\* ids of V, bm25_score exactly for the ids of B, and text and metadata come
\* from V when the id is in V and from B otherwise.
C10_FusionUnion ==
    (last.op = "search" /\ last.vector_results # <<>> /\ last.bm25_results # <<>>)
    =>  LET V == last.vector_results
            B == last.bm25_results
            F == last.fused_results
        IN  /\ Ids(F) = Ids(V) \cup Ids(B)
            /\ Len(F) = Cardinality(Ids(F))
            /\ \A i \in DOMAIN F :
                  /\ (F[i].vector_score # None) <=> (F[i].chunk_id \in Ids(V))
                  /\ (F[i].bm25_score # None) <=> (F[i].chunk_id \in Ids(B))
                  /\ IF F[i].chunk_id \in Ids(V)
                     THEN \E j \in DOMAIN V :
                            /\ V[j].chunk_id = F[i].chunk_id
                            /\ F[i].text = V[j].text
                            /\ F[i].metadata = V[j].metadata
                     ELSE \E j \in DOMAIN B :
                            /\ B[j].chunk_id = F[i].chunk_id
                            /\ F[i].text = B[j].text
                            /\ F[i].metadata = B[j].metadata

\* A fusion with a chunk found by the keyword path only and a chunk found by
\* both paths whose metadata differs between the two lists.
C10_Witness ==
    /\ last.op = "search"
    /\ last.vector_results # <<>>
    /\ \E j \in DOMAIN last.bm25_results :
          last.bm25_results[j].chunk_id \notin Ids(last.vector_results)
    /\ \E i \in DOMAIN last.vector_results, j \in DOMAIN last.bm25_results :
          /\ last.vector_results[i].chunk_id = last.bm25_results[j].chunk_id
          /\ last.vector_results[i].metadata # last.bm25_results[j].metadata

\* The chunk's term of the RRF sum for one list: nothing when it is not there.
RrfTerm(weightTenths, list, chunk_id) ==
    IF IndexOfId(list, chunk_id) = 0 THEN Rat(0, 1)
    ELSE Rat(weightTenths, 10 * (DEFAULT_RRF_K + IndexOfId(list, chunk_id)))

InLowestTerms(r) == Rat(r.num \div Gcd(r.num, r.den), r.den \div Gcd(r.num, r.den))

\* C11: every fused chunk's fused_score is vector_weight / (rrf_k + rank_v) if
\* it is in V plus bm25_weight / (rrf_k + rank_b) if it is in B, the ranks
\* being the 1-based positions in V and B; vector_score and bm25_score play
\* no part.
C11_RrfFormula ==
    (last.op = "search" /\ last.fused_results # <<>>)
    =>  \A i \in DOMAIN last.fused_results :
           InLowestTerms(last.fused_results[i].fused_score)
             = RatAdd(RrfTerm(vector_weight, last.vector_results,
                              last.fused_results[i].chunk_id),
                      RrfTerm(bm25_weight, last.bm25_results,
                              last.fused_results[i].chunk_id))

\* A fusion under two non-zero weights with a chunk ranked differently by the
\* two methods and a chunk found by one method only.
C11_Witness ==
    /\ last.op = "search"
    /\ vector_weight = 7 /\ bm25_weight = 10
    /\ \E i \in DOMAIN last.fused_results :
          LET id == last.fused_results[i].chunk_id
          IN  /\ IndexOfId(last.vector_results, id) # 0
              /\ IndexOfId(last.bm25_results, id) # 0
              /\ IndexOfId(last.vector_results, id) # IndexOfId(last.bm25_results, id)
    /\ \E i \in DOMAIN last.fused_results :
          IndexOfId(last.bm25_results, last.fused_results[i].chunk_id) = 0

\* The chunks of list keep in the fused list the order they have in list.
KeepsOrderOf(list, fused) ==
    \A i, j \in DOMAIN list :
        i < j => IndexOfId(fused, list[i].chunk_id) < IndexOfId(fused, list[j].chunk_id)

\* C12: with vector_weight = 1.0 and bm25_weight = 0.0 any two chunks of V
\* keep in the fused list the order they have in V; with vector_weight = 0.0
\* and bm25_weight = 1.0 any two chunks of B keep the order they have in B.
C12_WeightExtremes ==
    (last.op = "search" /\ last.fused_results # <<>>)
    =>  /\ (vector_weight = 10 /\ bm25_weight = 0)
              => KeepsOrderOf(last.vector_results, last.fused_results)
        /\ (vector_weight = 0 /\ bm25_weight = 10)
              => KeepsOrderOf(last.bm25_results, last.fused_results)

\* Keyword-only weighting of two chunks that V ranks the other way round.
C12_Witness ==
    /\ last.op = "search"
    /\ vector_weight = 0 /\ bm25_weight = 10
    /\ Len(last.bm25_results) >= 2
    /\ IndexOfId(last.vector_results, last.bm25_results[2].chunk_id) # 0
    /\ IndexOfId(last.vector_results, last.bm25_results[2].chunk_id)
         < IndexOfId(last.vector_results, last.bm25_results[1].chunk_id)

\* C13: in every reachable state of a HybridRetriever, after construction
\* with any arguments and any sequence of weight assignments, both weights lie
\* in [0.0, 1.0]; an assignment outside the range raises and leaves the weight
\* as it was.
C13_WeightsInRange ==
    /\ 0 <= vector_weight /\ vector_weight <= 10
    /\ 0 <= bm25_weight /\ bm25_weight <= 10
    /\ (last.op = "set_vector_weight" /\ ~(0 <= last.value /\ last.value <= 10))
          => (last.raised # Null /\ vector_weight = last.before)
    /\ (last.op = "set_bm25_weight" /\ ~(0 <= last.value /\ last.value <= 10))
          => (last.raised # Null /\ bm25_weight = last.before)

\* X is what build_index makes of its non-empty chunk list.
Built(X) ==
    /\ is_indexed(X)
    /\ X.chunks # <<>>
    /\ build_index(EmptyService, X.chunks) = [service |-> X, raised |-> Null]

\* C14: load(d) right after save(d, X), X built from a non-empty chunk list,
\* returns an Indexed service with X's chunk list and tokenized corpus,
\* element for element and in order, its ranking structure rebuilt from that
\* corpus, and the same search results as X for every query and k.
C14_RoundTrip ==
    (/\ prev.op = "save" /\ prev.raised = Null /\ Built(prev.service)
     /\ last.op = "load" /\ last.document_id = prev.document_id)
    =>  /\ last.raised = Null
        /\ last.service # None
        /\ is_indexed(last.service)
        /\ last.service.chunks = prev.service.chunks
        /\ last.service.tokenized_corpus = prev.service.tokenized_corpus
        /\ last.service.index = BM25Okapi(prev.service.tokenized_corpus)
        /\ \A query \in Queries, k \in 1..MaxK :
              service_search(last.service, query, k, 0)
                = service_search(prev.service, query, k, 0)

\* A saved and reloaded service of several chunks that answers some query.
C14_Witness ==
    /\ prev.op = "save" /\ prev.raised = Null /\ Built(prev.service)
    /\ last.op = "load" /\ last.document_id = prev.document_id
    /\ last.raised = Null
    /\ Len(prev.service.chunks) >= 2
    /\ \E query \in Queries, k \in 1..MaxK :
          service_search(last.service, query, k, 0).results # <<>>

C17_Step ==
    /\ last.op = "none" => service = EmptyService
    /\ last'.op = "clear" => service' = EmptyService
    /\ (last'.op = "service_search" /\ service = EmptyService)
          => last'.raised = NotBuiltMsg
    /\ (last'.op = "build_index" /\ last'.chunks = <<>>)
          => (last'.raised = "Cannot build index from empty chunks list"
              /\ service' = service)
    /\ (last'.op = "build_index" /\ last'.chunks # <<>>)
          => /\ last'.raised = Null
             /\ is_indexed(service')
             /\ service'.chunks = last'.chunks
             /\ service'.tokenized_corpus =
                  [i \in DOMAIN last'.chunks |-> tokenize(last'.chunks[i].text)]
             /\ service'.index = BM25Okapi(service'.tokenized_corpus)

\* C17: a BM25Service is Empty initially and after clear(), Indexed after
\* build_index with any non-empty chunk list (chunks, corpus and index all
\* replaced), search in Empty raises RuntimeError, and build_index with an
\* empty list raises ValueError and leaves the service as it was.
C17_TwoStateMachine == [][C17_Step]_vars

\* C15: over any sequence of index_document and delete_document calls the
\* keyword record of a document id holds exactly the chunks, in request order,
\* of the most recent successful index_document for that id, and no record
\* exists between a delete_document that reported bm25_deleted = true and the
\* next successful index_document.
C15_KeywordLifecycle ==
    \A d \in DocIds :
        /\ indexedAs[d] = Deleted => ~exists(kstore, d)
        /\ indexedAs[d].state = "indexed"
              => /\ exists(kstore, d)
                 /\ kstore[d] # Corrupt
                 /\ [i \in DOMAIN kstore[d].chunks |-> kstore[d].chunks[i].chunk_id]
                      = indexedAs[d].chunk_ids
                 /\ [i \in DOMAIN kstore[d].chunks |-> kstore[d].chunks[i].text]
                      = indexedAs[d].texts

Tokens(seq) == { seq[j] : j \in DOMAIN seq }

\* Every token of the query occurs in chunk i of the record and in no other.
OccursOnlyIn(query, record, i) ==
    /\ tokenize(query) # <<>>
    /\ Tokens(tokenize(query)) \subseteq Tokens(record.tokenized_corpus[i])
    /\ \A j \in DOMAIN record.tokenized_corpus :
          j # i => Tokens(tokenize(query)) \cap Tokens(record.tokenized_corpus[j]) = {}

\* C16: for a successfully indexed document, of two chunks as well, a query
\* whose tokens occur in exactly one chunk gets a non-empty keyword result
\* list with that chunk first, so that search fuses.
C16_KeywordFindsTheChunk ==
    (/\ last.op = "search" /\ last.raised = Null /\ ~last.searchRaised
     /\ exists(kstore, last.document_id))
    =>  \A i \in DOMAIN kstore[last.document_id].chunks :
           OccursOnlyIn(last.query, kstore[last.document_id], i)
           =>  /\ last.bm25_results # <<>>
               /\ last.bm25_results[1].chunk_id
                    = kstore[last.document_id].chunks[i].chunk_id
               /\ last.fused_results # <<>>

C18_Step ==
    (last'.op = "reconcile" /\ last'.raised = Null)
    =>  LET V == { e.metadata.document_id : e \in vstore }
            B == { d \in DOMAIN kstore : exists(kstore, d) }
            report == last'.report
        IN  /\ report.orphaned_in_chromadb = V \ B
            /\ report.orphaned_in_bm25 = B \ V
            /\ is_consistent(report) <=> (V = B)
            /\ vstore' = vstore
            /\ last'.calls = (IF last'.auto_fix THEN B \ V ELSE {})
            /\ \A d \in DOMAIN kstore :
                  kstore'[d] = IF d \in last'.calls /\ d \notin last'.failing
                               THEN NoRecord ELSE kstore[d]
            /\ (last'.auto_fix /\ last'.failing \cap (B \ V) = {})
                  => \A d \in DOMAIN kstore : exists(kstore', d) => d \in V

\* C18: with V the document ids of the vector store and B those of the
\* keyword store, reconcile reports orphaned_in_chromadb = V \ B and
\* orphaned_in_bm25 = B \ V, consistent exactly when V = B; with auto_fix it
\* deletes exactly the keyword records of B \ V and leaves the vector store
\* alone, and when no deletion fails every remaining keyword record belongs to
\* a document id of V.
C18_Reconcile == [][C18_Step]_vars

\* An auto-fix that removed a keyword-only record and left a vector-only
\* document in place.
C18_Witness ==
    /\ last.op = "reconcile" /\ last.raised = Null /\ last.auto_fix
    /\ last.report.fixed_bm25 # {}
    /\ \A d \in last.report.fixed_bm25 : ~exists(kstore, d)
    /\ last.report.orphaned_in_chromadb # {}
    /\ \A d \in last.report.orphaned_in_chromadb :
          \E e \in vstore : e.metadata.document_id = d

\* Whitespace and punctuation of any script.
PunctuationOrSpace == Separators

\* C19: tokenize returns for every text; two calls on the same text return
\* the same tokens whatever was tokenized in between; an empty or
\* whitespace-only text gives no token; no token is empty or made only of
\* whitespace or punctuation.
C19_TokenizeTotalPure ==
    last.op = "tokenize"
    =>  /\ (last.text = <<>> \/ IsBlank(last.text)) => last.tokens = <<>>
        /\ \A i, j \in DOMAIN last.history :
              last.history[i].text = last.history[j].text
                 => last.history[i].tokens = last.history[j].tokens
        /\ \A i \in DOMAIN last.tokens :
              /\ last.tokens[i] # <<>>
              /\ \E j \in DOMAIN last.tokens[i] :
                    last.tokens[i][j] \notin PunctuationOrSpace

\* The chunks the vector store holds for a document: id and text.
VectorChunks(d) ==
    { <<e.id, e.document>> : e \in { x \in vstore : x.metadata.document_id = d } }

\* The chunks of the keyword record of a document.
KeywordChunks(d) ==
    IF kstore[d] = Corrupt THEN {}
    ELSE { <<kstore[d].chunks[i].chunk_id, kstore[d].chunks[i].text>> :
             i \in DOMAIN kstore[d].chunks }

\* The document is in both stores with the same chunks, or in neither.
SameVersion(d) ==
    /\ InVectorStore(d) <=> InKeywordStore(d)
    /\ InKeywordStore(d) => (kstore[d] # Corrupt /\ VectorChunks(d) = KeywordChunks(d))

\* C20, for calls that never overlap: after index_document and
\* delete_document calls made one after the other and all reporting success,
\* no document is in exactly one store and the two stores never hold
\* different versions of it.  (Overlapping calls are said to be able to reach
\* such a state.)
C20_NoOverlapNoDivergence ==
    callsOk => \A d \in DocIds : SameVersion(d)

\* The user owns an entry of the document in the vector store.
OwnsVectorEntries(coll, d, u) == \E e \in coll : Matches(e, Where(d, u))

\* The keyword record of the document was written for the user.
OwnsKeywordRecord(files, d, u) ==
    /\ exists(files, d)
    /\ files[d] # Corrupt
    /\ \E i \in DOMAIN files[d].chunks : files[d].chunks[i].metadata.user_id = u

C21_Step ==
    (/\ last'.op = "delete_document"
     /\ ops' = ops + 1
     /\ ~OwnsVectorEntries(vstore, last'.document_id, last'.user_id)
     /\ ~OwnsKeywordRecord(kstore, last'.document_id, last'.user_id))
    =>  /\ vstore' = vstore
        /\ \A u \in UserIds :
              OwnsKeywordRecord(kstore, last'.document_id, u)
              => kstore'[last'.document_id] = kstore[last'.document_id]

\* C21: a delete_document call by a user who owns no entry of the document,
\* in the vector store or in the keyword record, removes nothing: the
\* owner's vector entries and the owner's keyword record survive the call.
C21_ForeignDeleteRemovesNothing == [][C21_Step]_vars

SeqSet(seq) == { seq[i] : i \in DOMAIN seq }

\* The chunk ids the vector store holds for a document.
VectorChunkIds(coll, d) == { e.id : e \in { x \in coll : x.metadata.document_id = d } }

\* The chunk ids of the keyword record of a document.
KeywordChunkIds(files, d) ==
    IF ~exists(files, d) \/ files[d] = Corrupt THEN {}
    ELSE { files[d].chunks[i].chunk_id : i \in DOMAIN files[d].chunks }

C23_Step ==
    (/\ last'.op = "index_document"
     /\ ops' = ops + 1
     /\ last'.result.success
     /\ indexedAs[last'.request.document_id].state = "indexed"
     /\ SeqSet(indexedAs[last'.request.document_id].chunk_ids)
          # SeqSet(last'.request.chunk_ids))
    =>  VectorChunkIds(vstore', last'.request.document_id)
          = KeywordChunkIds(kstore', last'.request.document_id)

\* C23: after a successful index_document for a document id that was already
\* indexed with a different set of chunk ids, the vector store holds for the
\* document exactly the chunk ids of its keyword record: no chunk of the
\* earlier version is left in either store.
C23_ReindexLeavesNoStaleChunks == [][C23_Step]_vars

C25_Step ==
    (/\ last'.op = "index_document"
     /\ ops' = ops + 1
     /\ \E i \in SaveCalls(last') : last'.calls[i].raised)
    =>  /\ ~last'.result.bm25_indexed
        /\ kstore' = kstore

\* C25: a keyword save that fails leaves the store as it was: index_document
\* reports bm25_indexed = false, an earlier record of the document id is
\* still there with its chunks and tokenized corpus, and a document id
\* without an earlier record still has none.
C25_FailedSaveChangesNothing == [][C25_Step]_vars

\* The caller's map for text i of a request, empty when none was given.
CallerMap(request, i) ==
    IF i <= Len(request.metadatas) THEN request.metadatas[i] ELSE EmptyMap

\* The map written for a chunk forces the two fields and keeps the rest.
InjectedFrom(written, request, i) ==
    /\ DOMAIN written = DOMAIN CallerMap(request, i) \cup {"user_id", "document_id"}
    /\ written["user_id"] = request.user_id
    /\ written["document_id"] = request.document_id
    /\ \A key \in DOMAIN CallerMap(request, i) \ {"user_id", "document_id"} :
          written[key] = CallerMap(request, i)[key]

\* C26: after a successful index_document, the metadata stored for every
\* chunk, in the vector store and in the keyword record, has the request's
\* user_id and document_id whatever the caller's map says for these keys,
\* keeps every other caller key, is exactly the two fields when the caller
\* gave no map, there is one map per text, and the caller's maps are as
\* they were.
C26_MetadataInjection ==
    (last.op = "index_document" /\ last.result.success)
    =>  LET request == last.request
            d == request.document_id
        IN  /\ Len(kstore[d].chunks) = Len(request.texts)
            /\ \A i \in DOMAIN request.texts :
                  /\ InjectedFrom(kstore[d].chunks[i].metadata, request, i)
                  /\ \E e \in vstore : e.id = request.chunk_ids[i]
                  /\ \A e \in vstore :
                        e.id = request.chunk_ids[i] => InjectedFrom(e.metadata, request, i)
            /\ last.caller_metadatas = request.metadatas

\* A successful call whose first caller map names another user and document
\* and whose last text has no caller map.
C26_Witness ==
    /\ last.op = "index_document" /\ last.result.success
    /\ Len(last.request.metadatas) = 1
    /\ Len(last.request.texts) = 2
    /\ "user_id" \in DOMAIN last.request.metadatas[1]
    /\ last.request.metadatas[1]["user_id"] = "intruder"
    /\ \E e \in vstore :
          /\ e.id = last.request.chunk_ids[1]
          /\ e.metadata["user_id"] = last.request.user_id
          /\ e.metadata["custom_field"] = "value"

\* Entry i of the corpus is the tokens of chunk i.
Aligned(X) ==
    /\ Len(X.tokenized_corpus) = Len(X.chunks)
    /\ \A i \in DOMAIN X.chunks : X.tokenized_corpus[i] = tokenize(X.chunks[i].text)

C27_Step ==
    /\ Aligned(ServiceOf(memory'))
    /\ (last'.op = "mutate" /\ ops' = ops + 1) => ServiceOf(memory') = ServiceOf(memory)

\* C27: the chunk list and the tokenized corpus of a BM25Service are aligned
\* in every reachable state, and no mutation the caller performs on a list
\* returned by get_chunks or get_tokenized_corpus (its token lists included)
\* or on the list it passed to build_index changes the service's state.
C27_AlignedAndCopies == [][C27_Step]_vars

\* Position of a chunk in the fused map: the chunks of the vector list in
\* list order, then the keyword-only chunks in keyword-list order.
InsertionPos(id) ==
    IF IndexOfId(last.vector_results, id) # 0 THEN IndexOfId(last.vector_results, id)
    ELSE Len(last.vector_results) + IndexOfId(last.bm25_results, id)

\* a comes before b: higher fused_score, or the same and inserted earlier.
RanksBefore(a, b) ==
    \/ RatGt(a.fused_score, b.fused_score)
    \/ /\ RatEq(a.fused_score, b.fused_score)
       /\ InsertionPos(a.chunk_id) < InsertionPos(b.chunk_id)

\* C28: search returns at most k results with pairwise distinct chunk ids;
\* on the fusion path they are the first k entries of the fused map in
\* descending fused_score, entries of equal score in insertion order (vector
\* list first, then keyword-only chunks in keyword-list order).
C28_TopKStable ==
    (last.op = "search" /\ last.raised = Null)
    =>  LET results == last.results
            fused == { last.fused_results[i] : i \in DOMAIN last.fused_results }
        IN  /\ Len(results) <= last.k
            /\ \A i, j \in DOMAIN results :
                  i # j => results[i].chunk_id # results[j].chunk_id
            /\ last.bm25_results # <<>>
                  => /\ Len(results) = Min(last.k, Cardinality(fused))
                     /\ \A i \in DOMAIN results : results[i] \in fused
                     /\ \A i, j \in DOMAIN results :
                           i < j => RanksBefore(results[i], results[j])
                     /\ \A i \in DOMAIN results : \A e \in fused :
                           e \notin { results[j] : j \in DOMAIN results }
                             => RanksBefore(results[i], e)

\* A fused list cut at k between two chunks of equal fused_score, under
\* weights in (0, 1].
C28_Witness ==
    /\ last.op = "search" /\ last.raised = Null
    /\ last.bm25_results # <<>>
    /\ Len(last.fused_results) > last.k
    /\ Len(last.results) = last.k
    /\ vector_weight > 0 /\ vector_weight <= 10
    /\ bm25_weight > 0 /\ bm25_weight <= 10
    /\ RatEq(last.results[last.k].fused_score,
             last.fused_results[last.k + 1].fused_score)

\* exists, load and list_indexes agree that the id has a record.
HasRecord(files, d) ==
    /\ exists(files, d)
    /\ d \in list_indexes(files)
    /\ ~LoadRaises(files, d)
    /\ load(files, d) # None

\* ... or that it has none.
HasNoRecord(files, d) ==
    /\ ~exists(files, d)
    /\ d \notin list_indexes(files)
    /\ ~LoadRaises(files, d)
    /\ load(files, d) = None

OthersUntouched(d) == \A e \in DOMAIN kstore : e # d => kstore'[e] = kstore[e]

C29_Step ==
    LET d == last'.document_id
    IN  /\ (last'.op = "save" /\ last'.raised = Null)
              => /\ HasRecord(kstore', d)
                 /\ kstore'[d] = BM25IndexData(d, last'.service)
                 /\ OthersUntouched(d)
        /\ (last'.op = "save" /\ last'.raised # Null)
              => kstore' = kstore
        /\ (last'.op = "save" /\ ~is_indexed(last'.service))
              => last'.raised = NoIndexMsg
        /\ (last'.op = "delete" /\ last'.raised = Null)
              => /\ last'.deleted <=> exists(kstore, d)
                 /\ HasNoRecord(kstore', d)
                 /\ OthersUntouched(d)
        /\ (last'.op = "delete" /\ last'.raised # Null)
              => kstore' = kstore
        /\ (last'.op = "load" /\ ~exists(kstore, d))
              => last'.raised = Null /\ last'.service = None

\* C29, step by step: a successful save of d leaves exactly one record of d,
\* the one just saved, which exists, loads and is listed; a successful delete
\* returns true exactly when a record existed and leaves none; a call that
\* fails, the save of a service with no built index (InvalidState) among
\* them, creates or changes no record; load of an unknown id returns None
\* without raising.  So an id has a record exactly when the last successful
\* call on it was a save.
C29_StoreLifecycle == [][C29_Step]_vars

\* The position in the chunk list of the chunk a result was made from.
ChunkPos(X, result) == CHOOSE i \in DOMAIN X.chunks : X.chunks[i].chunk_id = result.chunk_id

C30_Step ==
    (last'.op = "service_search" /\ Built(service))
    =>  LET results == last'.results
            tokens  == tokenize(last'.query)
            scores  == get_scores(service.index, tokens)
            passing == { i \in DOMAIN service.chunks : scores[i] > last'.score_threshold }
            pos     == [j \in DOMAIN results |-> ChunkPos(service, results[j])]
        IN  /\ service' = service
            /\ last'.raised = Null
            /\ (last'.query = <<>> \/ IsBlank(last'.query) \/ tokens = <<>>)
                  => results = <<>>
            /\ tokens # <<>>
                  => /\ Len(results) = Min(last'.k, Cardinality(passing))
                     /\ \A j \in DOMAIN results :
                           /\ pos[j] \in passing
                           /\ results[j] = BM25SearchResult(service.chunks[pos[j]],
                                                            scores[pos[j]])
                     /\ \A j \in DOMAIN results : \A i \in passing :
                           (i \notin { pos[h] : h \in 1..j })
                             => \/ scores[pos[j]] > scores[i]
                                \/ scores[pos[j]] = scores[i] /\ pos[j] < i

C22_ReconcileKeepsIndexedDocuments ==
    \A r \in running.removed : ~r.in_vector

\* C24: once an index_document call has ended in failure, no search made while
\* it ran has returned a chunk that its vector add wrote.
C24_FailedWritesNeverServed ==
    (running.index.pc = "done" /\ ~running.index.result.success)
    => running.served = {}

====
